---- MODULE Spec2Model ----
(***************************************************************************)
(* Model of the workbook diff engine of the rota app                       *)
(* (src/variant_diff_helpers.py): _norm, common_sheets, diff_sheet.        *)
(*                                                                         *)
(* Python strings are sequences of one-character strings, so that strip(), *)
(* str() and the '.10g' format are computed character by character.        *)
(* A float is an exact decimal [neg, ip, fd]: sign, integer part and the   *)
(* sequence of fraction digits (value = ip + 0.fd).                        *)
(***************************************************************************)
EXTENDS Integers, Sequences, FiniteSets, TLC

VARIABLES
    wbA, wbB,        \* the two loaded workbooks of a comparison
    op,              \* the call made so far: "init" before any call
    v, s, s2,        \* _norm: its argument, _norm(v) and _norm(_norm(v))
    sheet_name,      \* diff_sheet: the sheet asked for
    max_changes,     \* diff_sheet: the cap
    sheets,          \* the list common_sheets returned
    columns, changes,\* the DataFrame diff_sheet returned: its columns and rows
    compared,        \* the cell comparisons diff_sheet made, in order
    summary,         \* the dict diff_summary returned
    top_n, top,      \* top_changed_rows / top_changed_cols: its count and its table
    req,             \* the invocations in progress, each with its arguments and locals
    lists,           \* the list objects the invocations created for their changes
    session,         \* st.session_state of the admin's browser session
    draft,           \* a script run of the drafting section: widgets, locals, temp files
    db,              \* the database tables rota_periods and leave_requests
    run              \* the script runs of the request screens, one per signed-in user

callVars == <<wbA, wbB, op, v, s, s2, sheet_name, max_changes, sheets, columns, changes,
              compared, summary, top_n, top>>

appVars == <<session, draft, db, run>>

vars == <<callVars, req, lists, appVars>>

----------------------------------------------------------------------------
(* Cell values: the closed variant {None, str, int, float, bool, datetime} *)
(* openpyxl hands to _norm.                                                *)

NoneV == [t |-> "none"]
StrV(chars) == [t |-> "str", s |-> chars]
IntV(n) == [t |-> "int", n |-> n]
FloatV(neg, ip, fd) == [t |-> "float", neg |-> neg, ip |-> ip, fd |-> fd]
BoolV(b) == [t |-> "bool", b |-> b]
DateTimeV(y, mo, d, h, mi, sec) ==
    [t |-> "datetime", y |-> y, mo |-> mo, d |-> d, h |-> h, mi |-> mi, sec |-> sec]

----------------------------------------------------------------------------
(* Characters and digits.                                                  *)

DigitChars == <<"0", "1", "2", "3", "4", "5", "6", "7", "8", "9">>

DigitChar(d) == DigitChars[d + 1]

\* the characters str.strip() removes (the ones that occur in the model)
Whitespace == {" ", "\t", "\n", "\r"}

RECURSIVE PosDigits(_)
\* decimal digits of a natural number, most significant first; <<>> for 0
PosDigits(n) == IF n = 0 THEN <<>> ELSE Append(PosDigits(n \div 10), n % 10)

RECURSIVE DigitsToChars(_)
DigitsToChars(ds) ==
    IF ds = <<>> THEN <<>> ELSE <<DigitChar(Head(ds))>> \o DigitsToChars(Tail(ds))

\* str(n) of a Python int
IntStr(n) ==
    IF n = 0 THEN <<"0">>
    ELSE IF n < 0 THEN <<"-">> \o DigitsToChars(PosDigits(-n))
    ELSE DigitsToChars(PosDigits(n))

\* a sequence of k zero digits
Zeros(k) == [i \in 1..k |-> 0]

\* digits of n left-padded with zeros to width w (the %02d / %04d of datetime)
ZeroPad(n, w) ==
    IF Len(PosDigits(n)) >= w THEN DigitsToChars(PosDigits(n))
    ELSE DigitsToChars(Zeros(w - Len(PosDigits(n))) \o PosDigits(n))

\* str(x) for the values _norm passes to str(): str, int, bool, datetime
PyStr(x) ==
    CASE x.t = "str" -> x.s
      [] x.t = "int" -> IntStr(x.n)
      [] x.t = "bool" -> IF x.b THEN <<"T", "r", "u", "e">> ELSE <<"F", "a", "l", "s", "e">>
      [] x.t = "datetime" ->
            ZeroPad(x.y, 4) \o <<"-">> \o ZeroPad(x.mo, 2) \o <<"-">> \o ZeroPad(x.d, 2)
            \o <<" ">> \o ZeroPad(x.h, 2) \o <<":">> \o ZeroPad(x.mi, 2)
            \o <<":">> \o ZeroPad(x.sec, 2)

RECURSIVE LStrip(_)
LStrip(cs) ==
    IF cs # <<>> /\ Head(cs) \in Whitespace THEN LStrip(Tail(cs)) ELSE cs

RECURSIVE RStrip(_)
RStrip(cs) ==
    IF cs # <<>> /\ cs[Len(cs)] \in Whitespace
    THEN RStrip(SubSeq(cs, 1, Len(cs) - 1))
    ELSE cs

\* a strip() that removes at most one character from each end
StripOnce(cs) ==
    LET l == IF cs # <<>> /\ Head(cs) \in Whitespace THEN Tail(cs) ELSE cs
    IN  IF l # <<>> /\ l[Len(l)] \in Whitespace THEN SubSeq(l, 1, Len(l) - 1) ELSE l

\* str.strip(): leading and trailing whitespace removed
Strip(cs) == RStrip(LStrip(cs))

----------------------------------------------------------------------------
(* Float arithmetic of _norm on exact decimals.                            *)

\* abs(v - round(v)) < 1e-9 : the tolerance is 10^-TolDigits
TolDigits == 9

\* f"{v:.10g}" : number of significant digits
Precision == 10

AllZero(ds) == \A i \in 1..Len(ds) : ds[i] = 0

\* compares 0.ds with one half: -1 below, 0 equal, 1 above
CmpHalf(ds) ==
    IF ds = <<>> \/ ds[1] < 5 THEN -1
    ELSE IF ds[1] > 5 \/ ~AllZero(Tail(ds)) THEN 1
    ELSE 0

\* round(v) rounds up in magnitude (Python 3 rounds half to even)
RoundsUp(f) == CmpHalf(f.fd) = 1 \/ (CmpHalf(f.fd) = 0 /\ f.ip % 2 = 1)

\* int(round(v))
RoundInt(f) ==
    LET m == IF RoundsUp(f) THEN f.ip + 1 ELSE f.ip
    IN  IF f.neg THEN -m ELSE m

\* index of the last nonzero digit of ds, 0 when there is none
LastNonZero(ds) ==
    IF AllZero(ds) THEN 0 ELSE CHOOSE k \in 1..Len(ds) :
        ds[k] # 0 /\ \A j \in (k + 1)..Len(ds) : ds[j] = 0

\* fraction digits of 1 - 0.ds (ds not all zero)
OneMinus(ds) ==
    LET k == LastNonZero(ds)
    IN  [i \in 1..Len(ds) |-> IF i < k THEN 9 - ds[i] ELSE IF i = k THEN 10 - ds[i] ELSE 0]

\* fraction digits of abs(v - round(v))
AbsDiffRound(f) == IF RoundsUp(f) THEN OneMinus(f.fd) ELSE f.fd

\* the tolerance test with a tolerance ten times larger
WithinTolWide(f) ==
    \A i \in 1..(TolDigits - 1) : i <= Len(AbsDiffRound(f)) => AbsDiffRound(f)[i] = 0

\* abs(v - round(v)) < 1e-9
WithinTol(f) ==
    \A i \in 1..TolDigits : i <= Len(AbsDiffRound(f)) => AbsDiffRound(f)[i] = 0

\* number of leading zeros of a digit sequence
LeadingZeros(ds) ==
    IF AllZero(ds) THEN Len(ds) ELSE (CHOOSE k \in 1..Len(ds) :
        ds[k] # 0 /\ \A j \in 1..(k - 1) : ds[j] = 0) - 1

\* ds without its trailing zeros
DropTrailingZeros(ds) == SubSeq(ds, 1, LastNonZero(ds))

\* ds + 1 as a digit sequence of the same length; [carry] when it overflows
Increment(ds) ==
    LET k == IF \A i \in 1..Len(ds) : ds[i] = 9 THEN 0
             ELSE CHOOSE i \in 1..Len(ds) : ds[i] # 9 /\ \A j \in (i + 1)..Len(ds) : ds[j] = 9
    IN  IF k = 0 THEN [digits |-> <<1>> \o Zeros(Len(ds) - 1), carry |-> 1]
        ELSE [digits |-> [i \in 1..Len(ds) |->
                            IF i < k THEN ds[i] ELSE IF i = k THEN ds[i] + 1 ELSE 0],
              carry |-> 0]

\* the significant digits of sig rounded half-even to Precision digits:
\* [digits, carry] where carry = 1 when 99..9 rounded up to 10..0
RoundSig(sig) ==
    IF Len(sig) <= Precision THEN [digits |-> sig, carry |-> 0]
    ELSE LET kept == SubSeq(sig, 1, Precision)
             rest == SubSeq(sig, Precision + 1, Len(sig))
             up == CmpHalf(rest) = 1 \/ (CmpHalf(rest) = 0 /\ kept[Precision] % 2 = 1)
         IN  IF up THEN Increment(kept) ELSE [digits |-> kept, carry |-> 0]

\* f"{v:.10g}" : Precision significant digits, trailing zeros removed,
\* exponent notation when the decimal exponent is < -4 or >= Precision
Format10g(f) ==
    LET all == PosDigits(f.ip) \o f.fd
        lz == LeadingZeros(all)
        rs == RoundSig(SubSeq(all, lz + 1, Len(all)))
        X == Len(PosDigits(f.ip)) - lz - 1 + rs.carry
        ds == DropTrailingZeros(rs.digits)
        sign == IF f.neg THEN <<"-">> ELSE <<>>
        body ==
            IF AllZero(all) THEN <<"0">>
            ELSE IF X < -4 \/ X >= Precision THEN
                DigitsToChars(<<ds[1]>>)
                \o (IF Len(ds) > 1 THEN <<".">> \o DigitsToChars(Tail(ds)) ELSE <<>>)
                \o <<"e">> \o (IF X < 0 THEN <<"-">> ELSE <<"+">>)
                \o ZeroPad(IF X < 0 THEN -X ELSE X, 2)
            ELSE IF X >= 0 THEN
                (IF Len(ds) >= X + 1 THEN DigitsToChars(SubSeq(ds, 1, X + 1))
                 ELSE DigitsToChars(ds \o Zeros(X + 1 - Len(ds))))
                \o (IF Len(ds) > X + 1
                    THEN <<".">> \o DigitsToChars(SubSeq(ds, X + 2, Len(ds)))
                    ELSE <<>>)
            ELSE <<"0", ".">> \o DigitsToChars(Zeros(-X - 1) \o ds)
    IN  sign \o body

\* _norm without the strip() of the last branch
NormNoStrip(x) ==
    IF x.t = "none" THEN <<>>
    ELSE IF x.t = "float" THEN
        IF WithinTol(x) THEN IntStr(RoundInt(x)) ELSE Format10g(x)
    ELSE PyStr(x)

\* _norm without the None test: str(None)
NormNoneAsText(x) ==
    IF x.t = "none" THEN <<"N", "o", "n", "e">>
    ELSE IF x.t = "float" THEN
        IF WithinTol(x) THEN IntStr(RoundInt(x)) ELSE Format10g(x)
    ELSE Strip(PyStr(x))

\* _norm(v)
Norm(x) ==
    IF x.t = "none" THEN <<>>
    ELSE IF x.t = "float" THEN
        IF WithinTol(x) THEN IntStr(RoundInt(x)) ELSE Format10g(x)
    ELSE Strip(PyStr(x))

----------------------------------------------------------------------------
(* Workbooks: [sheetnames, ws]; a worksheet is [max_row, max_column, cells].*)

Range(f) == {f[i] : i \in DOMAIN f}

Max(a, b) == IF a >= b THEN a ELSE b

\* ws.cell(r, c).value : a coordinate outside the populated range is an
\* empty cell, created on access, whose value is None
CellValue(ws, r, c) ==
    IF r <= ws.max_row /\ c <= ws.max_column THEN ws.cells[<<r, c>>] ELSE NoneV

\* x or 1
OrOne(x) == IF x = 0 THEN 1 ELSE x

Letters == <<"A", "B", "C", "D", "E", "F", "G", "H", "I", "J", "K", "L", "M",
             "N", "O", "P", "Q", "R", "S", "T", "U", "V", "W", "X", "Y", "Z">>

RECURSIVE ColumnLetterNoCarry(_)
\* a lettering that forgets the carry of the bijective base 26: 52 -> BZ
ColumnLetterNoCarry(c) ==
    IF c <= 26 THEN <<Letters[c]>>
    ELSE Append(ColumnLetterNoCarry(c \div 26), Letters[((c - 1) % 26) + 1])

RECURSIVE get_column_letter(_)
\* openpyxl.utils.get_column_letter: 1 -> A, 26 -> Z, 27 -> AA, ...
get_column_letter(c) ==
    IF c <= 26 THEN <<Letters[c]>>
    ELSE Append(get_column_letter((c - 1) \div 26), Letters[((c - 1) % 26) + 1])

\* common_sheets that keeps workbook B's order
CommonSheetsOrderB(a, b) ==
    SelectSeq(b.sheetnames, LAMBDA n : n \in Range(a.sheetnames))

\* [s for s in wb_a.sheetnames if s in wb_b.sheetnames]
common_sheets(a, b) ==
    SelectSeq(a.sheetnames, LAMBDA n : n \in Range(b.sheetnames))

DiffColumns == <<"Cell", "Row", "Col", "A", "B">>

\* the tuple with the row and column indices transposed
ChangeRecordTransposed(r, c, va, vb) ==
    [Cell |-> get_column_letter(c) \o IntStr(r), Row |-> c, Col |-> r, A |-> va, B |-> vb]

\* the tuple appended to changes
ChangeRecord(r, c, va, vb) ==
    [Cell |-> get_column_letter(c) \o IntStr(r), Row |-> r, Col |-> c, A |-> va, B |-> vb]

\* the comparison that reports a difference only when A's string is longer
DiffersLonger(va, vb) == Len(va) > Len(vb)

\* va != vb
Differs(va, vb) == va # vb

\* the loop body reading workbook B at the transposed coordinate (c, r)
CompareCellTransposedB(wsa, wsb, r, c, acc) ==
    LET va == Norm(CellValue(wsa, r, c))
        vb == Norm(CellValue(wsb, c, r))
        seen == Append(acc.compared, [Row |-> r, Col |-> c, va |-> va, vb |-> vb])
    IN  IF Differs(va, vb)
        THEN [rows |-> Append(acc.rows, ChangeRecord(r, c, va, vb)), compared |-> seen]
        ELSE [rows |-> acc.rows, compared |-> seen]

\* a loop body that appends the record of a differing cell twice
CompareCellTwice(wsa, wsb, r, c, acc) ==
    LET va == Norm(CellValue(wsa, r, c))
        vb == Norm(CellValue(wsb, r, c))
        seen == Append(acc.compared, [Row |-> r, Col |-> c, va |-> va, vb |-> vb])
        rec == ChangeRecord(r, c, va, vb)
    IN  IF Differs(va, vb)
        THEN [rows |-> Append(Append(acc.rows, rec), rec), compared |-> seen]
        ELSE [rows |-> acc.rows, compared |-> seen]

\* one pass of the inner loop body at (r, c): acc = [rows, compared];
\* compared records every pair of values handed to the comparison
CompareCell(wsa, wsb, r, c, acc) ==
    LET va == Norm(CellValue(wsa, r, c))
        vb == Norm(CellValue(wsb, r, c))
        seen == Append(acc.compared, [Row |-> r, Col |-> c, va |-> va, vb |-> vb])
    IN  IF Differs(va, vb)
        THEN [rows |-> Append(acc.rows, ChangeRecord(r, c, va, vb)), compared |-> seen]
        ELSE [rows |-> acc.rows, compared |-> seen]

\* len(changes) >= max_changes
CapReached(n, k) == n >= k

RECURSIVE InnerLoop(_, _, _, _, _, _, _)
\* for c in range(c, max_col + 1): ... break once a record was appended and
\* the cap is reached (nxt, the state after the loop body, is bound through
\* a singleton set so that it is evaluated once)
InnerLoop(wsa, wsb, max_col, k, r, c, acc) ==
    IF c > max_col THEN acc
    ELSE CHOOSE res \in
            {IF Len(nxt.rows) > Len(acc.rows) /\ CapReached(Len(nxt.rows), k)
                THEN nxt
                ELSE InnerLoop(wsa, wsb, max_col, k, r, c + 1, nxt) :
             nxt \in {CompareCell(wsa, wsb, r, c, acc)}} : TRUE

RECURSIVE OuterLoop(_, _, _, _, _, _, _)
\* for r in range(r, max_row + 1): inner loop, then break if the cap is reached
OuterLoop(wsa, wsb, max_row, max_col, k, r, acc) ==
    IF r > max_row THEN acc
    ELSE CHOOSE res \in
            {IF CapReached(Len(nxt.rows), k)
                THEN nxt
                ELSE OuterLoop(wsa, wsb, max_row, max_col, k, r + 1, nxt) :
             nxt \in {InnerLoop(wsa, wsb, max_col, k, r, 1, acc)}} : TRUE

\* the scan bounds taken from workbook A alone
ScanRowsOfA(wsa, wsb) == OrOne(wsa.max_row)

\* max(ws_a.max_row or 1, ws_b.max_row or 1)
ScanRows(wsa, wsb) == Max(OrOne(wsa.max_row), OrOne(wsb.max_row))

\* max(ws_a.max_column or 1, ws_b.max_column or 1)
ScanCols(wsa, wsb) == Max(OrOne(wsa.max_column), OrOne(wsb.max_column))

\* sheet_name not in wb_a.sheetnames or sheet_name not in wb_b.sheetnames
SheetMissing(a, b, name) ==
    name \notin Range(a.sheetnames) \/ name \notin Range(b.sheetnames)

\* a bare pd.DataFrame() for the missing-sheet case
EmptyDiffNoColumns == [columns |-> <<>>, rows |-> <<>>, compared |-> <<>>]

\* pd.DataFrame(columns=["Cell", "Row", "Col", "A", "B"]); nothing was compared
EmptyDiff == [columns |-> DiffColumns, rows |-> <<>>, compared |-> <<>>]

\* diff_sheet(xlsx_a, xlsx_b, sheet_name, max_changes) on the loaded
\* workbooks: [columns, rows] is the DataFrame, compared the comparisons made
diff_sheet(a, b, name, k) ==
    IF SheetMissing(a, b, name)
    THEN EmptyDiff
    ELSE LET wsa == a.ws[name]
             wsb == b.ws[name]
         IN  CHOOSE res \in
                {[columns |-> DiffColumns, rows |-> out.rows, compared |-> out.compared] :
                 out \in {OuterLoop(wsa, wsb, ScanRows(wsa, wsb), ScanCols(wsa, wsb), k, 1,
                                    [rows |-> <<>>, compared |-> <<>>])}} : TRUE

\* diff_summary counting the frame's columns instead of the distinct Col values
DiffSummaryFrameColumns(rows) ==
    IF rows = <<>>
    THEN [changed_cells |-> 0, changed_rows |-> 0, changed_cols |-> 0]
    ELSE [changed_cells |-> Len(rows),
          changed_rows |-> Cardinality({rows[i].Row : i \in DOMAIN rows}),
          changed_cols |-> Len(DiffColumns)]

\* diff_summary without nunique(): every record counts as a row
DiffSummaryNoDistinct(rows) ==
    IF rows = <<>>
    THEN [changed_cells |-> 0, changed_rows |-> 0, changed_cols |-> 0]
    ELSE [changed_cells |-> Len(rows),
          changed_rows |-> Len(rows),
          changed_cols |-> Cardinality({rows[i].Col : i \in DOMAIN rows})]

\* diff_summary(diffs)
diff_summary(rows) ==
    IF rows = <<>>
    THEN [changed_cells |-> 0, changed_rows |-> 0, changed_cols |-> 0]
    ELSE [changed_cells |-> Len(rows),
          changed_rows |-> Cardinality({rows[i].Row : i \in DOMAIN rows}),
          changed_cols |-> Cardinality({rows[i].Col : i \in DOMAIN rows})]

----------------------------------------------------------------------------
(* Hotspot ranking: top_changed_rows and top_changed_cols.                 *)

Min(a, b) == IF a <= b THEN a ELSE b

RECURSIVE Ascending(_)
\* the numbers of a finite set in ascending order
Ascending(S) ==
    IF S = {} THEN <<>>
    ELSE LET m == CHOOSE x \in S : \A y \in S : x <= y
         IN  <<m>> \o Ascending(S \ {m})

\* a group's size taken as its number of distinct cells
GroupSizeDistinctCells(rows, key, k) ==
    Cardinality({<<rows[i].Row, rows[i].Col>> : i \in {j \in DOMAIN rows : rows[j][key] = k}})

\* .size() of one group: the number of records whose `key` is k
GroupSize(rows, key, k) == Cardinality({i \in DOMAIN rows : rows[i][key] = k})

\* diffs.groupby(key, as_index=False).size().rename(columns={"size": "ChangedCells"}):
\* one line per distinct key; groupby sorts the groups by key (sort=True)
GroupBySize(rows, key) ==
    LET keys == Ascending({rows[i][key] : i \in DOMAIN rows})
    IN  [g \in 1..Len(keys) |->
            (key :> keys[g]) @@ ("ChangedCells" :> GroupSize(rows, key, keys[g]))]

\* .sort_values("ChangedCells", ascending=False): the default sort kind is
\* quicksort, which is not stable, so lines with equal counts may come out
\* in any order; every order the sort can return is an outcome
SortValuesDescending(table) ==
    {[i \in 1..Len(table) |-> table[p[i]]] :
        p \in {q \in [1..Len(table) -> 1..Len(table)] :
                 /\ \A i, j \in 1..Len(table) : i # j => q[i] # q[j]
                 /\ \A i \in 1..(Len(table) - 1) :
                      table[q[i]].ChangedCells >= table[q[i + 1]].ChangedCells}}

\* a head() that keeps one line too many
HeadOneMore(table, n) == SubSeq(table, 1, Min(n + 1, Len(table)))

\* .head(top_n), top_n >= 0
HeadN(table, n) == SubSeq(table, 1, Min(n, Len(table)))

\* the tables top_changed_rows (key "Row") and top_changed_cols (key "Col")
\* can return
TopChanged(rows, key, n) ==
    IF rows = <<>>
    THEN {[columns |-> <<key, "ChangedCells">>, rows |-> <<>>]}
    ELSE {[columns |-> <<key, "ChangedCells">>, rows |-> HeadN(sorted, n)] :
            sorted \in SortValuesDescending(GroupBySize(rows, key))}

\* top_changed_rows(diffs, top_n)
top_changed_rows(rows, n) == TopChanged(rows, "Row", n)

\* top_changed_cols(diffs, top_n)
top_changed_cols(rows, n) == TopChanged(rows, "Col", n)

----------------------------------------------------------------------------
(* Inputs.                                                                 *)

\* largest populated row / column of a generated sheet, largest small cap tried
MaxRow == 2
MaxCol == 2
MaxCap == 2

\* max_changes: int = 5000
DefaultMaxChanges == 5000

\* the caps a request is made with: the small ones and the default
Caps == (0..MaxCap) \cup {DefaultMaxChanges}

\* longest sequence of difference records handed to the summary and the
\* hotspot tables, largest small top_n tried
MaxRecords == 3
MaxTop == 2

\* top_n: int = 25
DefaultTopN == 25

TopNs == (0..MaxTop) \cup {DefaultTopN}

SheetNames == {"Rota", "Notes", "Audit"}

Alice == StrV(<<"A", "l", "i", "c", "e">>)
Bob == StrV(<<"B", "o", "b">>)
Date1 == DateTimeV(2024, 1, 2, 0, 0, 0)
Date2 == DateTimeV(2025, 12, 31, 23, 59, 5)

\* per coordinate, the value of the baseline sheet and the value a variant
\* may hold instead
Palettes ==
    << <<FloatV(FALSE, 2, <<1>>), IntV(2)>>,
       <<IntV(1), FloatV(FALSE, 1, <<0>>)>>,
       <<NoneV, StrV(<<" ", " ">>)>>,
       <<Alice, Bob>>,
       <<BoolV(TRUE), StrV(<<"T", "r", "u", "e", " ">>)>>,
       <<Date1, Date2>> >>

Palette(r, c) == Palettes[(((r - 1) * MaxCol + (c - 1)) % Len(Palettes)) + 1]

Positions(R, C) == (1..R) \X (1..C)

Sheet(R, C, choice) ==
    [max_row |-> R, max_column |-> C,
     cells |-> [p \in Positions(R, C) |-> Palette(p[1], p[2])[choice[p]]]]

BaselineSheets ==
    {Sheet(R, C, [p \in Positions(R, C) |-> 1]) : R \in 1..MaxRow, C \in 1..MaxCol}

VariantSheets ==
    UNION {{Sheet(d[1], d[2], ch) : ch \in [Positions(d[1], d[2]) -> {1, 2}]} :
           d \in (1..MaxRow) \X (1..MaxCol)}

BlankSheet == [max_row |-> 1, max_column |-> 1, cells |-> [p \in Positions(1, 1) |-> NoneV]]

NotesA ==
    [max_row |-> 2, max_column |-> 2,
     cells |-> [p \in Positions(2, 2) |->
        CASE p = <<1, 1>> -> BoolV(TRUE)
          [] p = <<1, 2>> -> Date1
          [] p = <<2, 1>> -> StrV(<<" ", "x", "\t">>)
          [] p = <<2, 2>> -> IntV(-3)]]

NotesB ==
    [max_row |-> 2, max_column |-> 2,
     cells |-> [p \in Positions(2, 2) |->
        CASE p = <<1, 1>> -> StrV(<<"T", "r", "u", "e">>)
          [] p = <<1, 2>> -> Date2
          [] p = <<2, 1>> -> StrV(<<"x">>)
          [] p = <<2, 2>> -> FloatV(TRUE, 3, <<0, 0, 0, 0, 0, 0, 0, 0, 0, 0, 1>>)]]

\* a workbook with the sheets `names`, in that order
Workbook(names, rota, notes) ==
    [sheetnames |-> names,
     ws |-> [n \in Range(names) |->
                IF n = "Rota" THEN rota ELSE IF n = "Notes" THEN notes ELSE BlankSheet]]

WorkbooksA ==
    {Workbook(<<"Rota", "Notes">>, ws, NotesA) : ws \in BaselineSheets}
    \cup {Workbook(<<"Notes">>, BlankSheet, NotesA)}

WorkbooksB ==
    {Workbook(<<"Rota", "Notes">>, ws, NotesA) : ws \in VariantSheets}
    \cup {Workbook(<<"Audit", "Notes">>, BlankSheet, NotesB)}

\* every order of every non-empty set of sheet names
NameLists ==
    UNION {{q \in [1..n -> SheetNames] : \A i, j \in 1..n : i # j => q[i] # q[j]} :
           n \in 1..Cardinality(SheetNames)}

LayoutWorkbooks == {Workbook(q, BlankSheet, BlankSheet) : q \in NameLists}

FractionDigits ==
    { <<0>>,
      <<0, 0, 0, 0, 0, 0, 0, 0, 0, 0, 1>>,
      <<0, 0, 0, 0, 0, 0, 0, 0, 0, 9, 9>>,
      <<0, 0, 0, 0, 0, 0, 0, 0, 1>>,
      <<0, 0, 0, 0, 0, 0, 0, 0, 1, 5>>,
      <<0, 0, 0, 0, 0, 0, 0, 0, 2>>,
      <<0, 0, 0, 0, 0, 0, 0, 0, 5>>,
      <<0, 0, 0, 0, 1>>,
      <<0, 0, 0, 1>>,
      <<0, 0, 0, 9, 7, 6, 5, 6, 2, 5>>,
      <<1>>,
      <<1, 2, 3, 4, 5, 6, 7, 8, 9, 5>>,
      <<5>>,
      <<9, 9, 9, 9, 9, 9, 9, 9, 6>>,
      <<9, 9, 9, 9, 9, 9, 9, 9, 9>>,
      <<9, 9, 9, 9, 9, 9, 9, 9, 9, 6>>,
      <<9, 9, 9, 9, 9, 9, 9, 9, 9, 9, 9>> }

FloatValues ==
    {FloatV(neg, ip, fd) : neg \in BOOLEAN, ip \in {0, 1, 2, 9, 12, 99}, fd \in FractionDigits}

TextValues ==
    {StrV(cs) : cs \in { <<>>, <<" ", " ">>, <<"A", "l", "i", "c", "e">>,
                         <<" ", " ", "B", "o", "b">>, <<"B", "o", "b", " ", "\n">>,
                         <<"\t", "a", " ", "b", " ", " ">>, <<" ", "1", " ">>,
                         <<"2", ".", "1">>, <<"T", "r", "u", "e">> }}

CellValues ==
    {NoneV} \cup FloatValues \cup TextValues
    \cup {IntV(n) : n \in {0, 1, 2, -3, 12, 100}}
    \cup {BoolV(b) : b \in BOOLEAN} \cup {Date1, Date2}

----------------------------------------------------------------------------
(* Calls.                                                                  *)

NoCall ==
    /\ op = "init"
    /\ v = NoneV /\ s = <<>> /\ s2 = <<>>
    /\ sheet_name = "" /\ max_changes = 0
    /\ sheets = <<>>
    /\ columns = <<>> /\ changes = <<>> /\ compared = <<>>
    /\ summary = [changed_cells |-> 0, changed_rows |-> 0, changed_cols |-> 0]
    /\ top_n = 0 /\ top = [columns |-> <<>>, rows |-> <<>>]

\* a comparison request: the baseline workbook and a variant of it
\* no invocation is run step by step, and the screens of the app are not open
NoRequest == req = <<>> /\ lists = <<>> /\ session = <<>> /\ draft = <<>> /\ db = <<>> /\ run = <<>>

Init == wbA \in WorkbooksA /\ wbB \in WorkbooksB /\ NoCall /\ NoRequest

\* two workbooks with any sheet lists
InitSheets == wbA \in LayoutWorkbooks /\ wbB \in LayoutWorkbooks /\ NoCall /\ NoRequest

\* sheets = common_sheets(bytes_a, bytes_b)
CallCommonSheets ==
    /\ op = "init"
    /\ sheets' = common_sheets(wbA, wbB)
    /\ op' = "common_sheets"
    /\ UNCHANGED <<appVars, req, lists, wbA, wbB, v, s, s2, sheet_name, max_changes, columns, changes,
                   compared, summary, top_n, top>>

\* diffs = diff_sheet(bytes_a, bytes_b, sheet, max_changes=k)
CallDiffSheet ==
    /\ op = "init"
    /\ \E name \in SheetNames, k \in Caps :
        \E out \in {diff_sheet(wbA, wbB, name, k)} :
            /\ sheet_name' = name
            /\ max_changes' = k
            /\ columns' = out.columns
            /\ changes' = out.rows
            /\ compared' = out.compared
    /\ op' = "diff_sheet"
    /\ UNCHANGED <<appVars, req, lists, wbA, wbB, v, s, s2, sheets, summary, top_n, top>>

\* summary = diff_summary(diffs), on the frame diff_sheet returned or on any
\* frame of difference records
CallDiffSummary ==
    /\ op \in {"diff_sheet", "records"}
    /\ summary' = diff_summary(changes)
    /\ op' = "diff_summary"
    /\ UNCHANGED <<appVars, req, lists, wbA, wbB, v, s, s2, sheet_name, max_changes, sheets, columns, changes,
                   compared, top_n, top>>

\* top_changed_rows(diffs, n)
CallTopChangedRows ==
    /\ op = "records"
    /\ \E n \in TopNs : \E out \in top_changed_rows(changes, n) :
            top_n' = n /\ top' = out
    /\ op' = "top_changed_rows"
    /\ UNCHANGED <<appVars, req, lists, wbA, wbB, v, s, s2, sheet_name, max_changes, sheets, columns, changes,
                   compared, summary>>

\* top_changed_cols(diffs, n)
CallTopChangedCols ==
    /\ op = "records"
    /\ \E n \in TopNs : \E out \in top_changed_cols(changes, n) :
            top_n' = n /\ top' = out
    /\ op' = "top_changed_cols"
    /\ UNCHANGED <<appVars, req, lists, wbA, wbB, v, s, s2, sheet_name, max_changes, sheets, columns, changes,
                   compared, summary>>

Next == CallCommonSheets \/ CallDiffSheet \/ CallDiffSummary

Spec == Init /\ [][Next]_vars

NextSheets == CallCommonSheets

SpecSheets == InitSheets /\ [][NextSheets]_vars

\* the variant-comparison screen, after sheets = common_sheets(base_bytes,
\* comp_bytes):
\*   default_sheet = "Rota" if "Rota" in sheets else sheets[0]
\*   sheet = st.selectbox("Sheet to compare", sheets, index=sheets.index(default_sheet))
\* sheets[0] of an empty list raises IndexError; otherwise the select box
\* shows the default and returns the sheet the user picks
ChooseDefaultSheet ==
    /\ op = "common_sheets"
    /\ IF "Rota" \notin Range(sheets) /\ sheets = <<>>
       THEN op' = "IndexError" /\ UNCHANGED sheet_name
       ELSE op' = "selectbox" /\ sheet_name' \in Range(sheets)
    /\ UNCHANGED <<appVars, req, lists, wbA, wbB, v, s, s2, max_changes, sheets, columns, changes,
                   compared, summary, top_n, top>>

\* diffs = diff_sheet(base_bytes, comp_bytes, sheet_name=sheet, max_changes=5000)
ScreenDiffSheet ==
    /\ op = "selectbox"
    /\ \E out \in {diff_sheet(wbA, wbB, sheet_name, DefaultMaxChanges)} :
          /\ max_changes' = DefaultMaxChanges
          /\ columns' = out.columns
          /\ changes' = out.rows
          /\ compared' = out.compared
    /\ op' = "diff_sheet"
    /\ UNCHANGED <<appVars, req, lists, wbA, wbB, v, s, s2, sheet_name, sheets, summary, top_n, top>>

NextScreen == CallCommonSheets \/ ChooseDefaultSheet \/ ScreenDiffSheet \/ CallDiffSummary

SpecScreen == InitSheets /\ [][NextScreen]_vars

\* the frames of difference records: every sequence of at most MaxRecords
\* records over the coordinates of a sheet
RecordFrames ==
    UNION {[1..n -> {ChangeRecord(p[1], p[2], <<"x">>, <<>>) :
                        p \in (1..MaxRow) \X (1..MaxCol)}] : n \in 0..MaxRecords}

\* a frame of difference records at hand
InitRecords ==
    /\ wbA \in {Workbook(<<"Rota">>, BlankSheet, BlankSheet)}
    /\ wbB = wbA
    /\ op = "records"
    /\ v = NoneV /\ s = <<>> /\ s2 = <<>>
    /\ sheet_name = "" /\ max_changes = 0
    /\ sheets = <<>>
    /\ columns = DiffColumns /\ changes \in RecordFrames /\ compared = <<>>
    /\ summary = [changed_cells |-> 0, changed_rows |-> 0, changed_cols |-> 0]
    /\ top_n = 0 /\ top = [columns |-> <<>>, rows |-> <<>>]
    /\ NoRequest

NextRecords == CallDiffSummary \/ CallTopChangedRows \/ CallTopChangedCols

SpecRecords == InitRecords /\ [][NextRecords]_vars

\* widest sheet of the lettering runs: two rounds of the alphabet and the
\* carry into the third (A .. Z, AA .. AZ, BA, BB)
MaxWideCol == 54

WideCols == 1..MaxWideCol

\* a sheet of R rows and C columns whose only value is in its last cell
WideSheet(R, C) ==
    [max_row |-> R, max_column |-> C,
     cells |-> [p \in Positions(R, C) |-> IF p = <<R, C>> THEN StrV(<<"x">>) ELSE NoneV]]

\* an empty Rota sheet against a wide one
InitWide ==
    /\ wbA = Workbook(<<"Rota">>, BlankSheet, BlankSheet)
    /\ wbB \in {Workbook(<<"Rota">>, WideSheet(R, C), BlankSheet) :
                   R \in 1..MaxRow, C \in WideCols}
    /\ NoCall /\ NoRequest

SpecWide == InitWide /\ [][Next]_vars

\* cell values of several types, some with the same normalized string
CrossValues ==
    {NoneV, StrV(<<>>), StrV(<<" ", "\t">>),
     IntV(1), FloatV(FALSE, 1, <<0>>), StrV(<<"1">>), StrV(<<" ", "1", " ">>),
     StrV(<<"1", ".", "0">>), IntV(0),
     BoolV(TRUE), BoolV(FALSE), StrV(<<"T", "r", "u", "e">>),
     StrV(<<"F", "a", "l", "s", "e", " ">>), StrV(<<"t", "r", "u", "e">>)}

\* a sheet whose only cell, A1, holds x
OneCellSheet(x) ==
    [max_row |-> 1, max_column |-> 1, cells |-> [p \in Positions(1, 1) |-> x]]

\* two one-cell Rota sheets with any two of the values
InitCross ==
    /\ wbA \in {Workbook(<<"Rota">>, OneCellSheet(x), BlankSheet) : x \in CrossValues}
    /\ wbB \in {Workbook(<<"Rota">>, OneCellSheet(x), BlankSheet) : x \in CrossValues}
    /\ NoCall /\ NoRequest

SpecCross == InitCross /\ [][Next]_vars

\* a cell value about to be normalized
InitNorm ==
    /\ wbA \in {Workbook(<<"Rota">>, BlankSheet, BlankSheet)}
    /\ wbB = wbA
    /\ op = "init"
    /\ v \in CellValues /\ s = <<>> /\ s2 = <<>>
    /\ sheet_name = "" /\ max_changes = 0
    /\ sheets = <<>>
    /\ columns = <<>> /\ changes = <<>> /\ compared = <<>>
    /\ summary = [changed_cells |-> 0, changed_rows |-> 0, changed_cols |-> 0]
    /\ top_n = 0 /\ top = [columns |-> <<>>, rows |-> <<>>]
    /\ NoRequest

\* s = _norm(v)
CallNorm ==
    /\ op = "init"
    /\ s' = Norm(v)
    /\ op' = "norm"
    /\ UNCHANGED <<appVars, req, lists, wbA, wbB, v, s2, sheet_name, max_changes, sheets, columns, changes,
                   compared, summary, top_n, top>>

\* s2 = _norm(s)
CallNormAgain ==
    /\ op = "norm"
    /\ s2' = Norm(StrV(s))
    /\ op' = "norm2"
    /\ UNCHANGED <<appVars, req, lists, wbA, wbB, v, s, sheet_name, max_changes, sheets, columns, changes,
                   compared, summary, top_n, top>>

NextNorm == CallNorm \/ CallNormAgain

SpecNorm == InitNorm /\ [][NextNorm]_vars

----------------------------------------------------------------------------
(* common_sheets and diff_sheet run step by step: two invocations, each    *)
(* with its own arguments and locals, one statement or one cell at a time. *)

\* the bytes of a workbook document, and bytes that are no document
NoWorkbook == [sheetnames |-> <<>>, ws |-> <<>>]
Buffer(wb) == [valid |-> TRUE, wb |-> wb]
Garbage == [valid |-> FALSE, wb |-> NoWorkbook]

\* a load_workbook that hands back an empty workbook for bytes it cannot parse
LoadWorkbookLenient(buf) == [raised |-> FALSE, wb |-> buf.wb]

\* load_workbook(BytesIO(buf), data_only=True): the workbook, or the
\* exception openpyxl raises for bytes that are no workbook document
load_workbook(buf) == [raised |-> ~buf.valid, wb |-> buf.wb]

\* the two invocations in progress
Requests == {"first", "second"}

\* one list object for all invocations, as a module-level list would be
ChangesSlotShared(i) == "first"

\* changes = [] binds a new list object in the frame of the invocation
ChangesSlot(i) == i

\* an invocation of fn about to execute its first statement
Invocation(fn, a, b, name, k) ==
    [fn |-> fn, a_bytes |-> a, b_bytes |-> b, sheet_name |-> name, max_changes |-> k,
     pc |-> "load_a", wb_a |-> NoWorkbook, wb_b |-> NoWorkbook, r |-> 0, c |-> 0,
     compared |-> 0, result |-> <<>>, last |-> <<>>]

\* the buffer pair of the first invocation: the Rota sheets differ in A1 and B2
RotaPairA == Workbook(<<"Rota", "Notes">>, Sheet(2, 2, [p \in Positions(2, 2) |-> 1]), NotesA)
RotaPairB == Workbook(<<"Rota", "Notes">>, Sheet(2, 2, [p \in Positions(2, 2) |-> 2]), NotesA)

\* the buffer pair of the second invocation: the Notes sheets differ in B1
NotesPairA == Workbook(<<"Notes">>, BlankSheet, NotesA)
NotesPairB == Workbook(<<"Audit", "Notes">>, BlankSheet, NotesB)

FirstRequests ==
    {Invocation("diff_sheet", a, b, name, k) :
        a \in {Buffer(RotaPairA), Garbage}, b \in {Buffer(RotaPairB), Garbage},
        name \in {"Rota", "Audit"}, k \in {1, DefaultMaxChanges}}
    \cup {Invocation("common_sheets", a, b, "", 0) :
            a \in {Buffer(RotaPairA), Garbage}, b \in {Buffer(RotaPairB), Garbage}}

SecondRequests ==
    {Invocation("diff_sheet", Buffer(NotesPairA), b, "Notes", k) :
        b \in {Buffer(NotesPairB), Garbage}, k \in {2, DefaultMaxChanges}}
    \cup {Invocation("common_sheets", Buffer(NotesPairA), b, "", 0) :
            b \in {Buffer(NotesPairB), Garbage}}

InitRequests ==
    /\ wbA = Workbook(<<"Rota">>, BlankSheet, BlankSheet)
    /\ wbB = wbA
    /\ NoCall
    /\ req \in {[i \in Requests |-> IF i = "first" THEN q1 ELSE q2] :
                  q1 \in FirstRequests, q2 \in SecondRequests}
    /\ lists = [i \in Requests |-> <<>>]
    /\ session = <<>> /\ draft = <<>> /\ db = <<>> /\ run = <<>>

\* wb_a = load_workbook(BytesIO(xlsx_a), ...); an exception leaves the function
LoadA(i) ==
    /\ req[i].pc = "load_a"
    /\ \E out \in {load_workbook(req[i].a_bytes)} :
          req' = IF out.raised
                 THEN [req EXCEPT ![i].pc = "raised"]
                 ELSE [req EXCEPT ![i].pc = "load_b", ![i].wb_a = out.wb]
    /\ UNCHANGED <<callVars, appVars, lists>>

\* wb_b = load_workbook(BytesIO(xlsx_b), ...)
LoadB(i) ==
    /\ req[i].pc = "load_b"
    /\ \E out \in {load_workbook(req[i].b_bytes)} :
          req' = IF out.raised
                 THEN [req EXCEPT ![i].pc = "raised"]
                 ELSE [req EXCEPT ![i].pc = IF req[i].fn = "diff_sheet" THEN "lookup"
                                                                        ELSE "list",
                                  ![i].wb_b = out.wb]
    /\ UNCHANGED <<callVars, appVars, lists>>

\* common_sheets: return [s for s in wb_a.sheetnames if s in wb_b.sheetnames]
ListSheets(i) ==
    /\ req[i].pc = "list"
    /\ req' = [req EXCEPT ![i].pc = "done",
                          ![i].result = <<common_sheets(req[i].wb_a, req[i].wb_b)>>]
    /\ UNCHANGED <<callVars, appVars, lists>>

\* diff_sheet: the sheet lookup; either the early return of the empty frame,
\* or ws_a, ws_b, max_row, max_col and changes = []
Lookup(i) ==
    /\ req[i].pc = "lookup"
    /\ IF SheetMissing(req[i].wb_a, req[i].wb_b, req[i].sheet_name)
       THEN /\ req' = [req EXCEPT ![i].pc = "done",
                                  ![i].result = <<[columns |-> EmptyDiff.columns,
                                                   rows |-> EmptyDiff.rows]>>]
            /\ UNCHANGED lists
       ELSE /\ req' = [req EXCEPT ![i].pc = "scan", ![i].r = 1, ![i].c = 1]
            /\ lists' = [lists EXCEPT ![ChangesSlot(i)] = <<>>]
    /\ UNCHANGED <<callVars, appVars>>

\* diff_sheet: one turn of the inner loop body, the cap test after an append,
\* and, at the end of a row, the cap test of the outer loop
CompareNext(i) ==
    /\ req[i].pc = "scan"
    /\ LET q == req[i]
           wsa == q.wb_a.ws[q.sheet_name]
           wsb == q.wb_b.ws[q.sheet_name]
       IN  \E old \in {lists[ChangesSlot(i)]} :
           \E nxt \in {CompareCell(wsa, wsb, q.r, q.c, [rows |-> old, compared |-> <<>>]).rows} :
              LET capped == CapReached(Len(nxt), q.max_changes)
                  rowDone == (Len(nxt) > Len(old) /\ capped) \/ q.c = ScanCols(wsa, wsb)
                  stop == rowDone /\ (capped \/ q.r = ScanRows(wsa, wsb))
              IN  /\ lists' = [lists EXCEPT ![ChangesSlot(i)] = nxt]
                  /\ req' = [req EXCEPT
                                ![i].compared = @ + 1,
                                ![i].pc = IF stop THEN "return" ELSE "scan",
                                ![i].r = IF rowDone /\ ~stop THEN @ + 1 ELSE @,
                                ![i].c = IF stop THEN @ ELSE IF rowDone THEN 1 ELSE @ + 1]
    /\ UNCHANGED <<callVars, appVars>>

\* diff_sheet: return pd.DataFrame(changes, columns=[...])
Return(i) ==
    /\ req[i].pc = "return"
    /\ req' = [req EXCEPT ![i].pc = "done",
                          ![i].result = <<[columns |-> DiffColumns,
                                           rows |-> lists[ChangesSlot(i)]]>>]
    /\ UNCHANGED <<callVars, appVars, lists>>

\* the caller keeps the result and makes the same call again
Repeat(i) ==
    /\ req[i].pc = "done"
    /\ req' = [req EXCEPT ![i] = [Invocation(req[i].fn, req[i].a_bytes, req[i].b_bytes,
                                             req[i].sheet_name, req[i].max_changes)
                                  EXCEPT !.last = req[i].result]]
    /\ UNCHANGED <<callVars, appVars, lists>>

NextRequests ==
    \E i \in Requests :
        \/ LoadA(i) \/ LoadB(i) \/ ListSheets(i) \/ Lookup(i)
        \/ CompareNext(i) \/ Return(i) \/ Repeat(i)

SpecRequests == InitRequests /\ [][NextRequests]_vars

----------------------------------------------------------------------------
(* Drafting three rota variants: the script run that follows a click on    *)
(* "Draft 3 rota versions now" (leave_app_with_preferences_and_3_variants). *)

\* variant_seeds = [11, 22, 33]
variant_seeds == <<11, 22, 33>>

\* one entry of attempts_base: its label and the relaxation flags of its command
Attempt(label, flags) == [label |-> label, flags |-> flags]

\* an attempts_base that lists every relaxation whatever the toggles say
AttemptsBaseAll(relax_week_gap, relax_no_consec_weekends) ==
    <<Attempt("Strict", {}),
      Attempt("Relax week-gap", {"--no_hard_week_gap"}),
      Attempt("Relax no-consec-weekends", {"--no_hard_no_consec_weekends"}),
      Attempt("Relax BOTH", {"--no_hard_week_gap", "--no_hard_no_consec_weekends"})>>

\* attempts_base as the appends build it
AttemptsBase(relax_week_gap, relax_no_consec_weekends) ==
    <<Attempt("Strict", {})>>
    \o (IF relax_week_gap
        THEN <<Attempt("Relax week-gap", {"--no_hard_week_gap"})>> ELSE <<>>)
    \o (IF relax_no_consec_weekends
        THEN <<Attempt("Relax no-consec-weekends", {"--no_hard_no_consec_weekends"})>>
        ELSE <<>>)
    \o (IF relax_week_gap /\ relax_no_consec_weekends
        THEN <<Attempt("Relax BOTH", {"--no_hard_week_gap", "--no_hard_no_consec_weekends"})>>
        ELSE <<>>)

\* a file of the temporary directory: absent, empty, or holding the output
\* that the attempt `by` wrote
NoFile == [state |-> "absent", by |-> ""]
EmptyFile == [state |-> "empty", by |-> ""]
OutputOf(label) == [state |-> "written", by |-> label]

\* what a solver process can do: its exit status, and whether it leaves the
\* output path alone, creates it empty, or writes an output to it
ReturnCodes == {0, 1}
FileEffects == {"nothing", "empty", "output"}

\* the output path after a solver process
AfterRun(file, effect, label) ==
    IF effect = "nothing" THEN file
    ELSE IF effect = "empty" THEN EmptyFile
    ELSE OutputOf(label)

\* proc.returncode == 0 and out_file.exists() and out_file.stat().st_size > 0
AttemptSucceeded(returncode, file) == returncode = 0 /\ file.state = "written"

\* a session that always takes the results of the run, even an empty list
StoreAlways(results, stored) == results

\* st.session_state["draft_results"] after the run: replaced only by a
\* non-empty list (an empty one runs into st.stop() first)
StoreResults(results, stored) == IF results = <<>> THEN stored ELSE results

\* results kept in the session by an earlier drafting run
EarlierResults ==
    <<[variant_name |-> <<2, variant_seeds[2]>>, bytes |-> OutputOf("earlier run"),
       used_label |-> "Strict"]>>

\* what the script run finds on its way to the drafting button: the
\* session, the role, the periods, the selected period, solve_rota.py, the
\* uploaded template and the click
Gates ==
    [signed_in : BOOLEAN, is_admin : BOOLEAN, has_periods : BOOLEAN,
     period_published : BOOLEAN, solver_exists : BOOLEAN,
     template_uploaded : BOOLEAN, clicked : BOOLEAN]

\* a script that does not test the publication of the selected period
GateOutcomeUnpublished(g) ==
    IF ~g.signed_in \/ ~g.is_admin \/ ~g.has_periods \/ ~g.solver_exists THEN "stopped"
    ELSE IF ~g.template_uploaded \/ ~g.clicked THEN "rendered"
    ELSE "button"

\* where the script run gets to: st.stop() at the first test that fails,
\* the end of the script without a template or a click, else the body of
\* the button
GateOutcome(g) ==
    IF ~g.signed_in THEN "stopped"
    ELSE IF ~g.is_admin THEN "stopped"
    ELSE IF ~g.has_periods THEN "stopped"
    ELSE IF ~g.period_published THEN "stopped"
    ELSE IF ~g.solver_exists THEN "stopped"
    ELSE IF ~g.template_uploaded THEN "rendered"
    ELSE IF ~g.clicked THEN "rendered"
    ELSE "button"

\* the widgets and locals of a script run; input_ok says that the leave and
\* preference filters and the template let the run reach the solver
DraftRun(g, relax_week_gap, relax_no_consec_weekends, input_ok, stored) ==
    [gate |-> g,
     relax_week_gap |-> relax_week_gap,
     relax_no_consec_weekends |-> relax_no_consec_weekends,
     input_ok |-> input_ok, previous |-> stored,
     pc |-> "start", attempts_base |-> <<>>, results |-> <<>>,
     i |-> 0, a |-> 0, succeeded |-> FALSE, used_label |-> "",
     out_file |-> NoFile, ran |-> <<>>, solver_started |-> FALSE]

InitDraft ==
    /\ wbA = Workbook(<<"Rota">>, BlankSheet, BlankSheet)
    /\ wbB = wbA
    /\ NoCall
    /\ req = <<>> /\ lists = <<>> /\ db = <<>> /\ run = <<>>
    /\ session \in {[draft_results |-> stored] : stored \in {<<>>, EarlierResults}}
    /\ draft \in {DraftRun(g, w, n, ok, session.draft_results) :
                    g \in Gates, w \in BOOLEAN, n \in BOOLEAN, ok \in BOOLEAN}

\* the script from its top to the drafting button
RunScript ==
    /\ draft # <<>> /\ draft.pc = "start"
    /\ draft' = [draft EXCEPT !.pc = GateOutcome(draft.gate)]
    /\ UNCHANGED <<callVars, req, lists, session, db, run>>

\* the click: the solver input is prepared, or the run ends in st.stop()
ClickDraft ==
    /\ draft # <<>> /\ draft.pc = "button"
    /\ draft' = [draft EXCEPT !.pc = IF draft.input_ok THEN "attempts" ELSE "stopped"]
    /\ UNCHANGED <<callVars, req, lists, session, db, run>>

\* attempts_base = [...]; results = []
BuildAttempts ==
    /\ draft # <<>> /\ draft.pc = "attempts"
    /\ draft' = [draft EXCEPT
                    !.attempts_base = AttemptsBase(draft.relax_week_gap,
                                                   draft.relax_no_consec_weekends),
                    !.results = <<>>, !.i = 0, !.pc = "variant"]
    /\ UNCHANGED <<callVars, req, lists, session, db, run>>

\* for i, seed in enumerate(variant_seeds, start=1): a new output path
NextVariant ==
    /\ draft # <<>> /\ draft.pc = "variant"
    /\ draft' = IF draft.i = Len(variant_seeds)
                THEN [draft EXCEPT !.pc = "finish"]
                ELSE [draft EXCEPT !.i = @ + 1, !.a = 1, !.succeeded = FALSE,
                                   !.used_label = "", !.out_file = NoFile,
                                   !.ran = <<>>, !.pc = "attempt"]
    /\ UNCHANGED <<callVars, req, lists, session, db, run>>

\* for label, cmd in attempts_base: subprocess.run(cmd2), then the success test
RunAttempt ==
    /\ draft # <<>> /\ draft.pc = "attempt"
    /\ \E returncode \in ReturnCodes, effect \in FileEffects :
          LET at == draft.attempts_base[draft.a]
              file == AfterRun(draft.out_file, effect, at.label)
              ok == AttemptSucceeded(returncode, file)
              proc == [label |-> at.label, flags |-> at.flags,
                       seed |-> variant_seeds[draft.i],
                       returncode |-> returncode, ok |-> ok]
          IN  draft' = [draft EXCEPT
                          !.out_file = file,
                          !.ran = Append(@, proc),
                          !.solver_started = TRUE,
                          !.succeeded = ok,
                          !.used_label = IF ok THEN at.label ELSE @,
                          !.a = IF ok THEN @ ELSE @ + 1,
                          !.pc = IF ok \/ draft.a = Len(draft.attempts_base)
                                 THEN "after_attempts" ELSE "attempt"]
    /\ UNCHANGED <<callVars, req, lists, session, db, run>>

\* if not succeeded: continue; results.append((variant_name, bytes, used_label))
EndVariant ==
    /\ draft # <<>> /\ draft.pc = "after_attempts"
    /\ draft' = IF draft.succeeded
                THEN [draft EXCEPT
                        !.results = Append(@, [variant_name |-> <<draft.i, variant_seeds[draft.i]>>,
                                               bytes |-> draft.out_file,
                                               used_label |-> draft.used_label]),
                        !.pc = "variant"]
                ELSE [draft EXCEPT !.pc = "variant"]
    /\ UNCHANGED <<callVars, req, lists, session, db, run>>

\* if not results: st.stop(); st.session_state["draft_results"] = results
FinishDraft ==
    /\ draft # <<>> /\ draft.pc = "finish"
    /\ session' = [session EXCEPT
                      !.draft_results = StoreResults(draft.results, session.draft_results)]
    /\ draft' = [draft EXCEPT !.pc = IF draft.results = <<>> THEN "stopped" ELSE "stored"]
    /\ UNCHANGED <<callVars, req, lists, db, run>>

NextDraft ==
    RunScript \/ ClickDraft \/ BuildAttempts \/ NextVariant \/ RunAttempt \/ EndVariant \/ FinishDraft

SpecDraft == InitDraft /\ [][NextDraft]_vars

\* ------------------------------------------------------------------------
\* The solver input: approved leave of the selected period written to the
\* Leave sheet of the template.  Dates are day numbers.

MaxDay == 4
Days == 1..MaxDay

\* the selected period; days before and after it exist
period_start == 2
period_end == MaxDay - 1

\* the consultants in the order of their names
Consultants == <<"Ann", "Bob">>

\* a stored leave request: validate_dates let it in with end >= start
LeaveRequests ==
    {l \in [start_date : Days, end_date : Days, approved : BOOLEAN] :
        l.end_date >= l.start_date}

\* the leave_requests table: at most one request of each consultant
LeaveTables ==
    [1..Len(Consultants) -> {<<>>} \cup {<<l>> : l \in LeaveRequests}]

\* overlap(a_start, a_end, b_start, b_end)
overlap(a_start, a_end, b_start, b_end) ==
    a_start <= b_end /\ b_start <= a_end

\* contained / fully_contained of a row
Contained(l) == l.start_date >= period_start /\ l.end_date <= period_end

\* max(d, period_start), min(d, period_end)
Truncate(l) ==
    [l EXCEPT !.start_date = Max(l.start_date, period_start),
              !.end_date = Min(l.end_date, period_end)]

\* the rows of the table as records with the consultant, restricted to the
\* approved ones when only approved leave is used
LeaveOk(table, only_approved) ==
    {[consultant |-> c, start_date |-> table[c][1].start_date,
      end_date |-> table[c][1].end_date, approved |-> table[c][1].approved] :
        c \in {k \in DOMAIN table :
                 table[k] # <<>> /\ (only_approved => table[k][1].approved)}}

LeaveOverlap(rows) ==
    {l \in rows : overlap(l.start_date, l.end_date, period_start, period_end)}

LeavePartial(rows) == {l \in LeaveOverlap(rows) : ~Contained(l)}

\* leave_final: the overlapping rows, the partial ones truncated when
\* force_truncate is on
LeaveFinal(rows, force_truncate) ==
    LET truncated == {IF force_truncate /\ ~Contained(l) THEN Truncate(l) ELSE l :
                        l \in LeaveOverlap(rows)}
    IN  {l \in truncated : Contained(l)}

\* sort_values(["start_date", "consultant_name"])
LeaveBefore(x, y) ==
    \/ x.start_date < y.start_date
    \/ x.start_date = y.start_date /\ x.consultant <= y.consultant

RECURSIVE SortLeave(_)
SortLeave(rows) ==
    IF rows = {} THEN <<>>
    ELSE LET first == CHOOSE x \in rows : \A y \in rows : LeaveBefore(x, y)
         IN  <<first>> \o SortLeave(rows \ {first})

\* a row of the Leave sheet, columns A to E; BlankRow has no value in any
BlankRow == [A |-> "", B |-> 0, C |-> 0, E |-> FALSE, blank |-> TRUE]
LeaveRow(name, b, c, e) == [A |-> name, B |-> b, C |-> c, E |-> e, blank |-> FALSE]

\* a row the template came with: leave of an earlier period
OldRow == LeaveRow("Old", period_start - 1, period_start - 1, TRUE)

MaxTemplateRows == 3

\* the templates: without a Leave sheet, or with a Leave sheet whose rows 2
\* onward are these
NoLeaveSheet == [has_leave |-> FALSE, rows |-> <<>>]
Templates ==
    {NoLeaveSheet} \cup
    {[has_leave |-> TRUE, rows |-> rws] :
        rws \in UNION {[1..n -> {BlankRow, OldRow}] : n \in 0..MaxTemplateRows}}

\* for r in range(2, 5000): stop at the first row whose A is None or "",
\* else empty A to E of the row.  Position r here is row r + 1 of the sheet.
RECURSIVE ClearRows(_, _)
ClearRows(rows, r) ==
    IF r > Len(rows) THEN rows
    ELSE IF rows[r].blank \/ rows[r].A = "" THEN rows
    ELSE ClearRows([rows EXCEPT ![r] = BlankRow], r + 1)

\* the rows written from row 2 down over what the sheet holds
WriteRows(rows, recs) ==
    [r \in 1..Max(Len(rows), Len(recs)) |->
        IF r <= Len(recs)
        THEN LeaveRow(Consultants[recs[r].consultant], recs[r].start_date,
                      recs[r].end_date, recs[r].approved)
        ELSE rows[r]]

\* one drafting run up to the solver
PrepareRun(table, template, force_truncate, only_approved, pref_partial) ==
    [table |-> table, template |-> template, force_truncate |-> force_truncate,
     only_approved |-> only_approved, pref_partial |-> pref_partial,
     pc |-> "button", leave_final |-> {}, sheet |-> template.rows]

InitLeave ==
    /\ op = "idle" /\ wbA = <<>> /\ wbB = <<>>
    /\ v = <<>> /\ s = <<>> /\ s2 = <<>> /\ sheet_name = "" /\ max_changes = 0
    /\ sheets = <<>> /\ columns = <<>> /\ changes = <<>> /\ compared = 0
    /\ summary = <<>> /\ top_n = 0 /\ top = <<>>
    /\ req = <<>> /\ lists = <<>> /\ session = <<>> /\ draft = <<>> /\ db = <<>>
    /\ run \in {PrepareRun(tb, tp, ft, oa, pp) :
                  tb \in LeaveTables, tp \in Templates, ft \in BOOLEAN,
                  oa \in BOOLEAN, pp \in BOOLEAN}

\* the leave filter and the preferred-shift filter: st.stop() on a partial
\* overlap without truncation
FilterLeave ==
    /\ run # <<>> /\ run.pc = "button"
    /\ LET rows == LeaveOk(run.table, run.only_approved)
       IN  IF LeavePartial(rows) # {} /\ ~run.force_truncate
           THEN run' = [run EXCEPT !.pc = "stopped"]
           ELSE IF run.pref_partial /\ ~run.force_truncate
           THEN run' = [run EXCEPT !.pc = "stopped"]
           ELSE run' = [run EXCEPT !.pc = "filtered",
                                   !.leave_final = LeaveFinal(rows, run.force_truncate)]
    /\ UNCHANGED <<callVars, req, lists, session, draft, db>>

\* load_workbook(template), the Leave sheet cleared and written
WriteLeaveSheet ==
    /\ run # <<>> /\ run.pc = "filtered"
    /\ IF ~run.template.has_leave
       THEN run' = [run EXCEPT !.pc = "stopped"]
       ELSE run' = [run EXCEPT !.pc = "prepared",
                               !.sheet = WriteRows(ClearRows(run.template.rows, 1),
                                                   SortLeave(run.leave_final))]
    /\ UNCHANGED <<callVars, req, lists, session, draft, db>>

\* wb.save(solver_input) and the first solver process
StartSolver ==
    /\ run # <<>> /\ run.pc = "prepared"
    /\ run' = [run EXCEPT !.pc = "solving"]
    /\ UNCHANGED <<callVars, req, lists, session, draft, db>>

NextLeave == FilterLeave \/ WriteLeaveSheet \/ StartSolver

SpecLeave == InitLeave /\ [][NextLeave]_vars

\* ------------------------------------------------------------------------
\* The leave-request screens over the database: a consultant's page and an
\* admin's page, each a script run that fetches the tables and then, on a
\* click, writes.  Other pages write between a run's fetch and its write.

MaxDate == 2
Dates == 1..MaxDate

\* the ids the database hands out
PeriodIds == {"p1", "p2"}
LeaveIds == {"r1"}

Users == {"consultant", "admin"}

\* is_rota_admin(): the user has a row in rota_admins
is_rota_admin(u) == u = "admin"

\* no row under an id; a row is the one-element sequence of its record
NoRow == <<>>

\* validate_dates: no error
validate_dates(start, end) == ~(end < start)

\* is_locked_for_range against the fetched periods
is_locked_for_range(periods, start, end) ==
    \E pid \in PeriodIds :
        /\ periods[pid] # NoRow
        /\ periods[pid][1].is_published
        /\ overlap(start, end, periods[pid][1].start_date, periods[pid][1].end_date)

\* pending = df[df["approved"] == False]
Pending(leave) == {id \in LeaveIds : leave[id] # NoRow /\ ~leave[id][1].approved}

\* if not is_admin: st.stop()
AdminSection(u) == is_rota_admin(u)

\* the payload of the leave insert
NewLeave(start, end) ==
    [start_date |-> start, end_date |-> end, approved |-> FALSE]

\* an update that also resets the approval
UpdatedLeaveReset(row, start, end) ==
    [row EXCEPT !.start_date = start, !.end_date = end, !.approved = FALSE]

\* the payload of the leave update: name, dates, type and notes
UpdatedLeave(row, start, end) ==
    [row EXCEPT !.start_date = start, !.end_date = end]

\* update({"approved": True})
ApprovedLeave(row) == [row EXCEPT !.approved = TRUE]

Now == <<"now">>
NoTime == <<>>

\* the payload of the period insert
NewPeriod(start, end, publish_now) ==
    [start_date |-> start, end_date |-> end, is_published |-> publish_now,
     published_at |-> IF publish_now THEN Now ELSE NoTime]

\* update({"is_published": True, "published_at": now})
Published(row) == [row EXCEPT !.is_published = TRUE, !.published_at = Now]

\* an unpublish that keeps the time of publication
UnpublishedKeepingTime(row) == [row EXCEPT !.is_published = FALSE]

\* update({"is_published": False, "published_at": None})
Unpublished(row) == [row EXCEPT !.is_published = FALSE, !.published_at = NoTime]

\* a page between script runs, and a run that fetched the tables and is
\* about to send the write of the clicked button
IdlePage == [pc |-> "idle", op |-> "", id |-> "", start_date |-> 0, end_date |-> 0]
LoadedPage(o, id, start, end) ==
    [pc |-> "loaded", op |-> o, id |-> id, start_date |-> start, end_date |-> end]

InitApp ==
    /\ op = "idle" /\ wbA = <<>> /\ wbB = <<>>
    /\ v = <<>> /\ s = <<>> /\ s2 = <<>> /\ sheet_name = "" /\ max_changes = 0
    /\ sheets = <<>> /\ columns = <<>> /\ changes = <<>> /\ compared = 0
    /\ summary = <<>> /\ top_n = 0 /\ top = <<>>
    /\ req = <<>> /\ lists = <<>> /\ session = <<>> /\ draft = <<>>
    /\ db = [rota_periods |-> [pid \in PeriodIds |-> NoRow],
             leave_requests |-> [id \in LeaveIds |-> NoRow]]
    /\ run = [u \in Users |-> IdlePage]

AppUnchanged == UNCHANGED <<callVars, req, lists, session, draft>>

\* the script run of a click on "Submit request": fetch, the tests of the
\* form, and the insert about to be sent
LoadSubmit(u) ==
    /\ run # <<>> /\ run[u].pc = "idle"
    /\ \E start \in Dates, end \in Dates, name_given \in BOOLEAN :
          IF /\ validate_dates(start, end)
             /\ name_given
             /\ ~((~is_rota_admin(u)) /\ is_locked_for_range(db.rota_periods, start, end))
          THEN run' = [run EXCEPT ![u] = LoadedPage("submit", "", start, end)]
          ELSE run' = run
    /\ UNCHANGED db /\ AppUnchanged

\* the script run of a click on "Save changes" or "Delete request" for a
\* pending request; the buttons are disabled for a locked row
LoadEdit(u) ==
    /\ run # <<>> /\ run[u].pc = "idle"
    /\ \E id \in Pending(db.leave_requests), button \in {"save", "delete"},
          start \in Dates, end \in Dates, name_given \in BOOLEAN :
          LET row == db.leave_requests[id][1]
              locked_row == (~is_rota_admin(u))
                            /\ is_locked_for_range(db.rota_periods, row.start_date, row.end_date)
          IN  IF locked_row THEN run' = run
              ELSE IF button = "delete"
              THEN run' = [run EXCEPT ![u] = LoadedPage("delete", id, row.start_date, row.end_date)]
              ELSE IF /\ validate_dates(start, end)
                      /\ name_given
                      /\ ~((~is_rota_admin(u)) /\ is_locked_for_range(db.rota_periods, start, end))
              THEN run' = [run EXCEPT ![u] = LoadedPage("save", id, start, end)]
              ELSE run' = run
    /\ UNCHANGED db /\ AppUnchanged

\* the script run of a click in the admin section: approvals and periods
LoadAdmin(u) ==
    /\ run # <<>> /\ run[u].pc = "idle"
    /\ AdminSection(u)
    /\ \/ run' = [run EXCEPT ![u] = LoadedPage("create", "", 0, 0)]
       \/ \E pid \in PeriodIds :
             /\ db.rota_periods[pid] # NoRow
             /\ run' = [run EXCEPT ![u] =
                          IF db.rota_periods[pid][1].is_published
                          THEN LoadedPage("unpublish", pid, 0, 0)
                          ELSE LoadedPage("publish", pid, 0, 0)]
       \/ \E id \in Pending(db.leave_requests), button \in {"approve", "reject"} :
             run' = [run EXCEPT ![u] = LoadedPage(button, id, 0, 0)]
    /\ UNCHANGED db /\ AppUnchanged

\* the database takes the write or raises; the page shows the outcome
Write(u, accepted, table) ==
    /\ run' = [run EXCEPT ![u] = IdlePage]
    /\ db' = IF accepted THEN table ELSE db
    /\ AppUnchanged

\* insert into leave_requests
SubmitLeave(u) ==
    /\ run # <<>> /\ run[u].pc = "loaded" /\ run[u].op = "submit"
    /\ \E accepted \in BOOLEAN, id \in LeaveIds :
          /\ db.leave_requests[id] = NoRow
          /\ Write(u, accepted,
                   [db EXCEPT !.leave_requests[id] =
                       <<NewLeave(run[u].start_date, run[u].end_date)>>])

\* update ... eq("id", selected_id): no row, no change
SaveChanges(u) ==
    /\ run # <<>> /\ run[u].pc = "loaded" /\ run[u].op = "save"
    /\ \E accepted \in BOOLEAN :
          Write(u, accepted,
                IF db.leave_requests[run[u].id] = NoRow THEN db
                ELSE [db EXCEPT !.leave_requests[run[u].id] =
                        <<UpdatedLeave(@[1], run[u].start_date, run[u].end_date)>>])

\* delete ... eq("id", id): "Delete request" and "Reject (delete) leave"
DeleteRequest(u) ==
    /\ run # <<>> /\ run[u].pc = "loaded" /\ run[u].op \in {"delete", "reject"}
    /\ \E accepted \in BOOLEAN :
          Write(u, accepted, [db EXCEPT !.leave_requests[run[u].id] = NoRow])

\* update({"approved": True}).eq("id", approve_id)
ApproveLeave(u) ==
    /\ run # <<>> /\ run[u].pc = "loaded" /\ run[u].op = "approve"
    /\ \E accepted \in BOOLEAN :
          Write(u, accepted,
                IF db.leave_requests[run[u].id] = NoRow THEN db
                ELSE [db EXCEPT !.leave_requests[run[u].id] = <<ApprovedLeave(@[1])>>])

\* the create-period form
CreatePeriod(u) ==
    /\ run # <<>> /\ run[u].pc = "loaded" /\ run[u].op = "create"
    /\ \E accepted \in BOOLEAN, start \in Dates, end \in Dates,
          publish_now \in BOOLEAN :
          IF validate_dates(start, end)
             /\ \E pid \in PeriodIds : db.rota_periods[pid] = NoRow
          THEN \E pid \in PeriodIds :
                  /\ db.rota_periods[pid] = NoRow
                  /\ Write(u, accepted,
                           [db EXCEPT !.rota_periods[pid] =
                               <<NewPeriod(start, end, publish_now)>>])
          ELSE Write(u, FALSE, db)

\* "Publish selected" and "Unpublish selected"
PublishSelected(u) ==
    /\ run # <<>> /\ run[u].pc = "loaded" /\ run[u].op \in {"publish", "unpublish"}
    /\ \E accepted \in BOOLEAN :
          Write(u, accepted,
                [db EXCEPT !.rota_periods[run[u].id] =
                    IF run[u].op = "publish" THEN <<Published(@[1])>>
                    ELSE <<Unpublished(@[1])>>])

NextApp ==
    \E u \in Users :
        \/ LoadSubmit(u) \/ LoadEdit(u) \/ LoadAdmin(u)
        \/ SubmitLeave(u) \/ SaveChanges(u) \/ DeleteRequest(u) \/ ApproveLeave(u)
        \/ CreatePeriod(u) \/ PublishSelected(u)

SpecApp == InitApp /\ [][NextApp]_vars

----------------------------------------------------------------------------
(* What the claims speak about.                                            *)

DiffDone == op \in {"diff_sheet", "diff_summary"}

InBoth == sheet_name \in Range(wbA.sheetnames) /\ sheet_name \in Range(wbB.sheetnames)

\* the value at a coordinate, absent (None) outside the populated range
ValueAt(ws, r, c) ==
    IF r \in 1..ws.max_row /\ c \in 1..ws.max_column THEN ws.cells[<<r, c>>] ELSE NoneV

RangeRows == Max(wbA.ws[sheet_name].max_row, wbB.ws[sheet_name].max_row)

RangeCols == Max(wbA.ws[sheet_name].max_column, wbB.ws[sheet_name].max_column)

\* the i-th coordinate of the row-major scan of the range
ScanCoord(i) == <<((i - 1) \div RangeCols) + 1, ((i - 1) % RangeCols) + 1>>

DiffersAt(p) ==
    Norm(ValueAt(wbA.ws[sheet_name], p[1], p[2])) # Norm(ValueAt(wbB.ws[sheet_name], p[1], p[2]))

\* every differing coordinate of the range, in row-major order
AllDiffCoords ==
    SelectSeq([i \in 1..(RangeRows * RangeCols) |-> ScanCoord(i)], DiffersAt)

\* the coordinates of the returned records, in order
ChangedCoords == [i \in 1..Len(changes) |-> <<changes[i].Row, changes[i].Col>>]

IsPrefix(p, q) == Len(p) <= Len(q) /\ \A i \in 1..Len(p) : p[i] = q[i]

\* C1: with both sheets present and a cap above the number of differing
\* cells, the records are exactly the coordinates of the range whose
\* normalized values differ, each once, and each record carries the two
\* normalized values of its coordinate (absent outside a sheet's range)
DiffIffNormDiffers ==
    (DiffDone /\ InBoth /\ max_changes > Len(AllDiffCoords)) =>
        /\ Len(changes) = Len(AllDiffCoords)
        /\ {ChangedCoords[i] : i \in 1..Len(changes)}
             = {p \in (1..RangeRows) \X (1..RangeCols) : DiffersAt(p)}
        /\ \A i \in 1..Len(changes) :
             /\ changes[i].A = Norm(ValueAt(wbA.ws[sheet_name], changes[i].Row, changes[i].Col))
             /\ changes[i].B = Norm(ValueAt(wbB.ws[sheet_name], changes[i].Row, changes[i].Col))

\* the worked example: B2 = "Alice" against "Bob", all else equal
DiffB2AliceBob ==
    /\ op = "diff_sheet" /\ sheet_name = "Rota"
    /\ changes = <<[Cell |-> <<"B", "2">>, Row |-> 2, Col |-> 2,
                    A |-> <<"A", "l", "i", "c", "e">>, B |-> <<"B", "o", "b">>]>>

\* C2: with more differing coordinates than the cap k, exactly k records are
\* returned, the first k of the row-major scan
CapEnforcement ==
    (DiffDone /\ InBoth /\ Len(AllDiffCoords) > max_changes) =>
        /\ Len(changes) = max_changes
        /\ IsPrefix(ChangedCoords, AllDiffCoords)

NoFalsePositives ==
    (InBoth /\ wbA = wbB) =>
        /\ DiffDone => changes = <<>>
        /\ op = "diff_summary" =>
             summary = [changed_cells |-> 0, changed_rows |-> 0, changed_cols |-> 0]

\* identical workbooks whose sheet of four cells was scanned and summarised
IdenticalScanned ==
    /\ op = "diff_summary" /\ InBoth /\ wbA = wbB
    /\ Len(compared) = 4
    /\ \E i \in 1..Len(compared) : compared[i].va # <<>>

\* C5: diff_sheet(B, A) reports the coordinates of diff_sheet(A, B), in the
\* same order, with the A and B fields swapped
Symmetry ==
    DiffDone =>
        LET rev == diff_sheet(wbB, wbA, sheet_name, max_changes).rows
        IN  /\ Len(rev) = Len(changes)
            /\ \A i \in 1..Len(changes) :
                 /\ rev[i].Cell = changes[i].Cell
                 /\ rev[i].Row = changes[i].Row
                 /\ rev[i].Col = changes[i].Col
                 /\ rev[i].A = changes[i].B
                 /\ rev[i].B = changes[i].A

\* sheets of different sizes with a record whose B value is the longer one
AsymmetricPayload ==
    /\ op = "diff_sheet" /\ InBoth
    /\ wbA.ws[sheet_name].max_row # wbB.ws[sheet_name].max_row
    /\ \E i \in 1..Len(changes) : Len(changes[i].B) > Len(changes[i].A)
    /\ \E i \in 1..Len(changes) : Len(changes[i].A) > Len(changes[i].B)

\* position of a name in a sheet list
IndexIn(names, n) == CHOOSE i \in 1..Len(names) : names[i] = n

\* C6: common_sheets returns the names in both workbooks, each once, in
\* workbook A's order; a name in one workbook only is left out
CommonSheetsInOrderOfA ==
    op = "common_sheets" =>
        /\ Range(sheets) = Range(wbA.sheetnames) \cap Range(wbB.sheetnames)
        /\ \A i, j \in 1..Len(sheets) :
             i < j => IndexIn(wbA.sheetnames, sheets[i]) < IndexIn(wbA.sheetnames, sheets[j])

\* the worked example: {Rota, Notes} against {Rota, Audit} gives [Rota]
CommonRotaOnly ==
    /\ op = "common_sheets"
    /\ wbA.sheetnames = <<"Rota", "Notes">> /\ wbB.sheetnames = <<"Rota", "Audit">>
    /\ sheets = <<"Rota">>

\* C7: a sheet missing from A, from B or from both gives the empty table
\* with the columns Cell, Row, Col, A, B, and no cell is compared
MissingSheetEmpty ==
    (DiffDone /\ ~InBoth) =>
        /\ changes = <<>>
        /\ columns = <<"Cell", "Row", "Col", "A", "B">>
        /\ compared = <<>>

\* the sheet is in workbook A but not in workbook B
MissingInBOnly ==
    /\ op = "diff_sheet"
    /\ sheet_name \in Range(wbA.sheetnames) /\ sheet_name \notin Range(wbB.sheetnames)
    /\ columns # <<>>

NormDone == op \in {"norm", "norm2"}

IsNumeric(x) == x.t \in {"int", "float"}

DigitValue(ch) == CHOOSE d \in 0..9 : DigitChars[d + 1] = ch

RECURSIVE ParseNat(_)
\* the number a sequence of digit characters denotes
ParseNat(cs) ==
    IF cs = <<>> THEN 0
    ELSE ParseNat(SubSeq(cs, 1, Len(cs) - 1)) * 10 + DigitValue(cs[Len(cs)])

\* cs is the decimal string of the integer k: an optional minus sign, then
\* digits without a leading zero
IsDecimalOf(cs, k) ==
    LET body == IF cs # <<>> /\ cs[1] = "-" THEN Tail(cs) ELSE cs
    IN  /\ body # <<>>
        /\ (cs[1] = "-") <=> (k < 0)
        /\ \A i \in 1..Len(body) : body[i] \in Range(DigitChars)
        /\ Len(body) > 1 => body[1] # "0"
        /\ ParseNat(body) = (IF k < 0 THEN -k ELSE k)

\* the first n fraction digits of x are all d (digits past the end are 0)
FirstDigitsAre(x, n, d) ==
    \A i \in 1..n : (IF i <= Len(x.fd) THEN x.fd[i] ELSE 0) = d

Signed(x, m) == IF x.neg THEN -m ELSE m

\* the integers next to a numeric value
NeighbourInts(x) ==
    IF x.t = "int" THEN {x.n} ELSE {Signed(x, x.ip), Signed(x, x.ip + 1)}

\* the integer k lies less than 1e-9 from the numeric value x
WithinToleranceOf(x, k) ==
    IF x.t = "int" THEN k = x.n
    ELSE \/ k = Signed(x, x.ip) /\ FirstDigitsAre(x, 9, 0)
         \/ /\ k = Signed(x, x.ip + 1)
            /\ FirstDigitsAre(x, 9, 9)
            /\ \E i \in 10..Len(x.fd) : x.fd[i] # 0

NearAnInteger(x) == \E k \in NeighbourInts(x) : WithinToleranceOf(x, k)

\* C8 as stated: a numeric value within 1e-9 of an integer normalizes to
\* that integer's decimal string, and every value farther away normalizes
\* to a string that is not the decimal string of the integer next to it
NumericToleranceAnyMagnitude ==
    (NormDone /\ IsNumeric(v)) =>
        /\ \A k \in NeighbourInts(v) : WithinToleranceOf(v, k) => IsDecimalOf(s, k)
        /\ ~NearAnInteger(v) => \A k \in NeighbourInts(v) : ~IsDecimalOf(s, k)

\* C8 (amended): a numeric value within 1e-9 of an integer normalizes to
\* that integer's decimal string; a value farther away whose magnitude is
\* below 10 normalizes to a string that is no integer's decimal string
NumericTolerance ==
    (NormDone /\ IsNumeric(v)) =>
        /\ \A k \in NeighbourInts(v) : WithinToleranceOf(v, k) => IsDecimalOf(s, k)
        /\ (~NearAnInteger(v) /\ v.ip < 10) =>
               \A k \in NeighbourInts(v) : ~IsDecimalOf(s, k)

\* 2.00000000001 was normalized to "2"
TwoPlusEpsilonIsTwo ==
    /\ op = "norm"
    /\ v = FloatV(FALSE, 2, <<0, 0, 0, 0, 0, 0, 0, 0, 0, 0, 1>>)
    /\ s = <<"2">>

\* cs is `full` without its leading and trailing whitespace
IsStrippedFormOf(cs, full) ==
    /\ \E i \in 0..Len(full) : \E j \in i..Len(full) :
          /\ cs = SubSeq(full, i + 1, j)
          /\ \A m \in 1..i : full[m] \in Whitespace
          /\ \A m \in (j + 1)..Len(full) : full[m] \in Whitespace
    /\ cs # <<>> => cs[1] \notin Whitespace /\ cs[Len(cs)] \notin Whitespace

\* what the rule set of C9 says of one cell value x and its normalized string
NormalizedByRule(x, cs) ==
    /\ x.t = "none" => cs = <<>>
    /\ x.t \in {"str", "bool", "datetime"} => IsStrippedFormOf(cs, PyStr(x))

HasRecordAt(r, c) == \E i \in 1..Len(changes) : changes[i].Row = r /\ changes[i].Col = c

\* C9: in every comparison diff_sheet made, an absent value became the empty
\* string and a text, boolean or date/time value its string representation
\* without leading and trailing whitespace, and the coordinate is reported
\* exactly when the two normalized strings differ
NormalizationRules ==
    DiffDone =>
        \A i \in 1..Len(compared) :
            LET e == compared[i]
            IN  /\ NormalizedByRule(ValueAt(wbA.ws[sheet_name], e.Row, e.Col), e.va)
                /\ NormalizedByRule(ValueAt(wbB.ws[sheet_name], e.Row, e.Col), e.vb)
                /\ HasRecordAt(e.Row, e.Col) <=> (e.va # e.vb)

\* text with surrounding whitespace was compared equal to bare text, and a
\* boolean equal to its text
StrippedTextEqual ==
    /\ op = "diff_sheet" /\ sheet_name = "Notes"
    /\ \E i \in 1..Len(compared) :
          /\ ValueAt(wbA.ws[sheet_name], compared[i].Row, compared[i].Col)
               = StrV(<<" ", "x", "\t">>)
          /\ compared[i].va = <<"x">> /\ compared[i].vb = <<"x">>
          /\ ~HasRecordAt(compared[i].Row, compared[i].Col)
    /\ \E i \in 1..Len(changes) : changes[i].A = PyStr(Date1)

\* C10: normalizing a normalized string returns it unchanged
NormIdempotent == op = "norm2" => s2 = s

\* text that strip() shortened was normalized twice
StrippedTwice ==
    /\ op = "norm2" /\ v.t = "str"
    /\ s # <<>> /\ Len(s) + 2 <= Len(v.s)

----------------------------------------------------------------------------
(* The summary and the hotspot tables of a frame of difference records.    *)

SummaryDone == op = "diff_summary"

\* the positions at which a value of `key` occurs for the first time
FirstOccurrences(key) ==
    {i \in DOMAIN changes : \A j \in 1..(i - 1) : changes[j][key] # changes[i][key]}

\* C11: diff_summary returns changed_cells = the number of records,
\* changed_rows = the number of distinct Row values and changed_cols = the
\* number of distinct Col values; for an empty sequence all three are 0
SummaryCounts ==
    SummaryDone =>
        /\ summary.changed_cells = Len(changes)
        /\ summary.changed_rows = Cardinality(FirstOccurrences("Row"))
        /\ summary.changed_cols = Cardinality(FirstOccurrences("Col"))
        /\ changes = <<>> =>
              summary = [changed_cells |-> 0, changed_rows |-> 0, changed_cols |-> 0]

\* three records, two of them the same cell, in one row and two columns
SummaryOfRepeatedRow ==
    /\ SummaryDone /\ Len(changes) = 3
    /\ changes[1] = changes[3] /\ changes[1] # changes[2]
    /\ summary = [changed_cells |-> 3, changed_rows |-> 1, changed_cols |-> 2]

\* C12: changed_rows never exceeds changed_cells and changed_cols never
\* exceeds changed_cells
RollupConsistency ==
    SummaryDone =>
        /\ summary.changed_rows <= summary.changed_cells
        /\ summary.changed_cols <= summary.changed_cells

\* two records of one row: fewer rows than cells, as many columns as cells
SummaryRowsBelowCells ==
    /\ SummaryDone /\ Len(changes) = 2
    /\ summary.changed_rows < summary.changed_cells
    /\ summary.changed_cols = summary.changed_cells

TopDone == op \in {"top_changed_rows", "top_changed_cols"}

\* the field the table groups by
TopKey == IF op = "top_changed_rows" THEN "Row" ELSE "Col"

\* the distinct indices of the records, the number of records of an index and
\* the position of its first record
DistinctKeys == {changes[i][TopKey] : i \in DOMAIN changes}
CountOf(k) == Cardinality({i \in DOMAIN changes : changes[i][TopKey] = k})
FirstIndex(k) ==
    CHOOSE i \in DOMAIN changes :
        changes[i][TopKey] = k /\ \A j \in 1..(i - 1) : changes[j][TopKey] # k

\* the indices the table returned
ReturnedKeys == {top.rows[i][TopKey] : i \in DOMAIN top.rows}

RECURSIVE SumChangedCells(_)
SumChangedCells(table) ==
    IF table = <<>> THEN 0
    ELSE Head(table).ChangedCells + SumChangedCells(Tail(table))

\* C13: top_changed_rows and top_changed_cols return at most n entries, in
\* non-increasing order of count, no group left out has a strictly larger
\* count than a group returned, and the returned counts sum to at most the
\* number of records
HotspotBound ==
    TopDone =>
        /\ Len(top.rows) <= top_n
        /\ \A i \in 1..(Len(top.rows) - 1) :
              top.rows[i].ChangedCells >= top.rows[i + 1].ChangedCells
        /\ \A k \in DistinctKeys \ ReturnedKeys : \A i \in DOMAIN top.rows :
              CountOf(k) <= top.rows[i].ChangedCells
        /\ SumChangedCells(top.rows) <= Len(changes)

\* the cut to one entry kept the row with two records and left out the row
\* with one
HotspotCutToOne ==
    /\ op = "top_changed_rows" /\ top_n = 1
    /\ Len(changes) = 3 /\ Cardinality(DistinctKeys) = 2
    /\ Len(top.rows) = 1 /\ top.rows[1].ChangedCells = 2

\* C14: groups with equal counts appear in the order in which their index
\* first occurs in the records, and that order decides which tied groups
\* survive the cut to n entries
HotspotTieBreak ==
    TopDone =>
        /\ \A i, j \in DOMAIN top.rows :
              (i < j /\ top.rows[i].ChangedCells = top.rows[j].ChangedCells)
                  => FirstIndex(top.rows[i][TopKey]) < FirstIndex(top.rows[j][TopKey])
        /\ \A k \in DistinctKeys \ ReturnedKeys : \A i \in DOMAIN top.rows :
              CountOf(k) = top.rows[i].ChangedCells
                  => FirstIndex(top.rows[i][TopKey]) < FirstIndex(k)

\* C15: with n at least the number of distinct indices the table has exactly
\* one (index, count) entry per distinct index, its count the number of
\* records of that index; for no records it is the empty table with the
\* columns (Row|Col, ChangedCells)
HotspotGrouping ==
    TopDone =>
        /\ top.columns = <<TopKey, "ChangedCells">>
        /\ changes = <<>> => top.rows = <<>>
        /\ top_n >= Cardinality(DistinctKeys) =>
              /\ Len(top.rows) = Cardinality(DistinctKeys)
              /\ \A i \in DOMAIN top.rows :
                    DOMAIN top.rows[i] = {TopKey, "ChangedCells"}
              /\ \A k \in DistinctKeys : \E i \in DOMAIN top.rows :
                    /\ top.rows[i][TopKey] = k
                    /\ top.rows[i].ChangedCells = CountOf(k)

\* both columns returned, one with two records of the same cell
HotspotAllColumns ==
    /\ op = "top_changed_cols" /\ top_n = 2
    /\ Len(changes) = 3 /\ \E i, j \in DOMAIN changes : i # j /\ changes[i] = changes[j]
    /\ Len(top.rows) = 2
    /\ top.rows[1].ChangedCells = 2 /\ top.rows[2].ChangedCells = 1

----------------------------------------------------------------------------
(* The Cell label of a record.                                             *)

RECURSIVE ColumnNumber(_)
\* the column a lettering denotes: A = 1, ..., Z = 26, AA = 27, ...
ColumnNumber(ls) ==
    IF ls = <<>> THEN 0
    ELSE ColumnNumber(SubSeq(ls, 1, Len(ls) - 1)) * 26
            + (CHOOSE k \in 1..26 : Letters[k] = ls[Len(ls)])

\* label is the lettering of column c followed by the decimal string of row r
IsLabelOf(label, r, c) ==
    \E k \in 1..(Len(label) - 1) :
        LET ls == SubSeq(label, 1, k)
            ds == SubSeq(label, k + 1, Len(label))
        IN  /\ \A i \in 1..k : ls[i] \in Range(Letters)
            /\ ColumnNumber(ls) = c
            /\ r > 0 /\ IsDecimalOf(ds, r)

\* C16: in every record of diff_sheet the Cell label is the spreadsheet
\* lettering of Col (1 -> A, 26 -> Z, 27 -> AA, 28 -> AB, ...) followed by
\* the decimal Row
CellLabelMatchesCoordinate ==
    DiffDone => \A i \in 1..Len(changes) :
                    IsLabelOf(changes[i].Cell, changes[i].Row, changes[i].Col)

\* a difference in column 28 of row 2 reported as AB2
LabelAB2 ==
    /\ op = "diff_sheet" /\ Len(changes) = 1
    /\ changes[1].Col = 28 /\ changes[1].Row = 2
    /\ changes[1].Cell = <<"A", "B", "2">>

----------------------------------------------------------------------------
(* Invocations run side by side.                                           *)

\* what an invocation returns when it runs alone
RunAlone(q) ==
    IF q.fn = "common_sheets"
    THEN common_sheets(q.a_bytes.wb, q.b_bytes.wb)
    ELSE LET d == diff_sheet(q.a_bytes.wb, q.b_bytes.wb, q.sheet_name, q.max_changes)
         IN  [columns |-> d.columns, rows |-> d.rows]

\* C17: an invocation's result depends only on its own two workbooks, sheet
\* name and cap: however the steps of two invocations on different buffer
\* pairs interleave, each returns what it returns when run alone, and a
\* repeated invocation returns the same result again
Statelessness ==
    \A i \in DOMAIN req :
        req[i].pc = "done" =>
            /\ req[i].result = <<RunAlone(req[i])>>
            /\ req[i].last # <<>> => req[i].result = req[i].last

\* both diffs returned records, different ones, the first invocation for the
\* second time
BothDiffsDone ==
    /\ req # <<>>
    /\ \A i \in Requests :
          /\ req[i].fn = "diff_sheet" /\ req[i].pc = "done"
          /\ req[i].result[1].rows # <<>>
    /\ req["first"].last # <<>>
    /\ req["first"].result[1].rows # req["second"].result[1].rows

\* one of the two buffers of an invocation is no workbook document
InvalidInput(q) == ~q.a_bytes.valid \/ ~q.b_bytes.valid

\* C19: with a buffer that is no workbook document common_sheets and
\* diff_sheet end in the parse failure and return nothing, having looked up
\* no sheet and compared no cell; the sheet lookup and the comparisons
\* happen only after both buffers were parsed
ParseFailure ==
    \A i \in DOMAIN req :
        LET q == req[i]
        IN  /\ InvalidInput(q) =>
                  /\ q.pc \in {"load_a", "load_b", "raised"}
                  /\ q.result = <<>> /\ q.compared = 0
            /\ q.pc = "raised" => InvalidInput(q)
            /\ q.pc = "load_b" => q.a_bytes.valid
            /\ (q.pc \in {"lookup", "list", "scan", "return", "done"} \/ q.compared > 0) =>
                  /\ q.a_bytes.valid /\ q.wb_a = q.a_bytes.wb
                  /\ q.b_bytes.valid /\ q.wb_b = q.b_bytes.wb

\* diff_sheet parsed its first buffer and failed on the second; the other
\* invocation returned
ParseFailureOnSecondBuffer ==
    /\ req # <<>>
    /\ req["first"].fn = "diff_sheet" /\ req["first"].pc = "raised"
    /\ req["first"].a_bytes.valid /\ ~req["first"].b_bytes.valid
    /\ req["first"].wb_a = RotaPairA /\ req["first"].wb_b = NoWorkbook
    /\ req["second"].pc = "done"

----------------------------------------------------------------------------
(* Truncation.                                                             *)

\* the number of records accumulated before the i-th comparison
RecordsBefore(i) ==
    Cardinality({j \in 1..(i - 1) : compared[j].va # compared[j].vb})

----------------------------------------------------------------------------
(* The variant-comparison screen.                                          *)

\* C20: when the two workbooks share no sheet name the screen does not fault
\* while choosing the default sheet, and it calls diff_sheet only with a
\* sheet of the common list
ScreenHandlesNoCommonSheet ==
    /\ (op # "init" /\ common_sheets(wbA, wbB) = <<>>) => op # "IndexError"
    /\ DiffDone => sheet_name \in Range(sheets)

----------------------------------------------------------------------------
(* Consequences for the results of diff_sheet.                             *)

\* C26: for every result of diff_sheet the summary has
\* changed_cells <= changed_rows * changed_cols
CellsWithinRowsTimesCols ==
    (SummaryDone /\ sheet_name # "") =>
        summary.changed_cells <= summary.changed_rows * summary.changed_cols

\* a diagonal of two differences: two cells in two rows and two columns
SummaryOfDiagonal ==
    /\ SummaryDone /\ sheet_name = "Rota"
    /\ summary = [changed_cells |-> 2, changed_rows |-> 2, changed_cols |-> 2]

\* the text x holds, stripped, is t
TextIs(x, t) == x.t = "str" /\ IsStrippedFormOf(t, x.s)

\* values the claim names as equal across types: absent or blank text; the
\* number 1 or its text; a boolean or its text
BlankValue(x) == x.t = "none" \/ TextIs(x, <<>>)
OneValue(x) == x = IntV(1) \/ x = FloatV(FALSE, 1, <<0>>) \/ TextIs(x, <<"1">>)
BoolValue(x, b) ==
    x = BoolV(b) \/ TextIs(x, IF b THEN <<"T", "r", "u", "e">> ELSE <<"F", "a", "l", "s", "e">>)
Coincide(x, y) ==
    \/ BlankValue(x) /\ BlankValue(y)
    \/ OneValue(x) /\ OneValue(y)
    \/ \E b \in BOOLEAN : BoolValue(x, b) /\ BoolValue(y, b)

\* C27: cells of different types whose normalized strings coincide give no
\* record: an absent cell against empty or whitespace-only text, a number
\* against the text of its canonical string, a boolean against "True" or
\* "False"
CrossTypeEquality ==
    (DiffDone /\ InBoth) =>
        \A i \in 1..Len(compared) :
            LET x == ValueAt(wbA.ws[sheet_name], compared[i].Row, compared[i].Col)
                y == ValueAt(wbB.ws[sheet_name], compared[i].Row, compared[i].Col)
            IN  /\ Coincide(x, y) => ~HasRecordAt(compared[i].Row, compared[i].Col)
                /\ (x.t # y.t /\ compared[i].va = compared[i].vb)
                      => ~HasRecordAt(compared[i].Row, compared[i].Col)

\* the float 1.0 compared with the text " 1 " and not reported
FloatAgainstPaddedText ==
    /\ op = "diff_sheet" /\ sheet_name = "Rota" /\ InBoth
    /\ ValueAt(wbA.ws["Rota"], 1, 1) = FloatV(FALSE, 1, <<0>>)
    /\ ValueAt(wbB.ws["Rota"], 1, 1) = StrV(<<" ", "1", " ">>)
    /\ Len(compared) = 1 /\ changes = <<>>

----------------------------------------------------------------------------
(* The drafting run.                                                       *)

Drafting == draft # <<>>

\* the flags the toggles of the run allow
AllowedFlags ==
    (IF draft.relax_week_gap THEN {"--no_hard_week_gap"} ELSE {})
    \cup (IF draft.relax_no_consec_weekends THEN {"--no_hard_no_consec_weekends"} ELSE {})

\* the ladder in its priority order, cut down to the attempts whose flags
\* the toggles allow
Ladder ==
    SelectSeq(<<Attempt("Strict", {}),
                Attempt("Relax week-gap", {"--no_hard_week_gap"}),
                Attempt("Relax no-consec-weekends", {"--no_hard_no_consec_weekends"}),
                Attempt("Relax BOTH", {"--no_hard_week_gap", "--no_hard_no_consec_weekends"})>>,
              LAMBDA at : at.flags \subseteq AllowedFlags)

\* the solver processes of the current variant are over
AttemptsOver == draft.pc = "after_attempts" \/ (draft.pc = "variant" /\ draft.i > 0)

\* C21: for each seed the attempts run in the order Strict, relax week-gap,
\* relax no-consecutive-weekends, relax both, each relaxation only with its
\* toggle on; Strict comes first, no flag of a toggle that is off is passed,
\* no attempt runs after a success, and the label recorded is that of the
\* first successful attempt
RetryLadder ==
    Drafting =>
        /\ Len(draft.ran) <= Len(Ladder)
        /\ \A k \in 1..Len(draft.ran) :
              /\ draft.ran[k].label = Ladder[k].label
              /\ draft.ran[k].flags = Ladder[k].flags
              /\ draft.ran[k].flags \subseteq AllowedFlags
              /\ draft.ran[k].seed = variant_seeds[draft.i]
              /\ k < Len(draft.ran) => ~draft.ran[k].ok
        /\ draft.ran # <<>> => draft.ran[1].label = "Strict" /\ draft.ran[1].flags = {}
        /\ AttemptsOver =>
              /\ draft.ran # <<>>
              /\ draft.succeeded <=> draft.ran[Len(draft.ran)].ok
              /\ draft.succeeded => draft.used_label = draft.ran[Len(draft.ran)].label
              /\ ~draft.succeeded => Len(draft.ran) = Len(Ladder)
        /\ (draft.pc = "variant" /\ draft.i > 0 /\ draft.succeeded) =>
              /\ draft.results # <<>>
              /\ draft.results[Len(draft.results)].used_label = draft.ran[Len(draft.ran)].label
              /\ draft.results[Len(draft.results)].variant_name[1] = draft.i

\* with only the weekend toggle on, seed 22 failed Strict and succeeded with
\* the weekend rule relaxed, and the variant was recorded under that label
SecondRungSucceeded ==
    /\ Drafting /\ draft.pc = "variant" /\ draft.i = 2
    /\ ~draft.relax_week_gap /\ draft.relax_no_consec_weekends
    /\ Len(draft.ran) = 2 /\ ~draft.ran[1].ok /\ draft.ran[2].ok
    /\ draft.ran[2].flags = {"--no_hard_no_consec_weekends"}
    /\ draft.results[Len(draft.results)].used_label = "Relax no-consec-weekends"

\* C25: a variant is recorded only if an attempt of its ladder exited with
\* status 0 with the output file present and non-empty, and the recorded
\* bytes are the output of the attempt whose label is recorded
RecordedOutputIsOfRecordedAttempt ==
    Drafting =>
        /\ \A k \in 1..Len(draft.results) :
              /\ draft.results[k].bytes.state = "written"
              /\ draft.results[k].bytes.by = draft.results[k].used_label
        /\ (draft.pc = "variant" /\ draft.i > 0 /\ draft.succeeded) =>
              draft.ran[Len(draft.ran)].returncode = 0

\* the names of a result list: variant numbers in increasing order, each
\* with its seed
InSeedOrder(results) ==
    /\ \A k \in 1..Len(results) :
          /\ results[k].variant_name[1] \in 1..Len(variant_seeds)
          /\ results[k].variant_name[2] = variant_seeds[results[k].variant_name[1]]
    /\ \A j, k \in 1..Len(results) :
          j < k => results[j].variant_name[1] < results[k].variant_name[1]

\* C28: the run replaces st.session_state["draft_results"] only when a
\* variant succeeded and leaves the stored results alone when every variant
\* failed or the run stopped earlier; the stored list has at most three
\* entries, in seed order, with distinct names; a variant whose attempts all
\* fail is skipped and the later seeds are still tried
DraftResultsInSession ==
    Drafting =>
        /\ draft.pc = "stored" =>
              draft.results # <<>> /\ session.draft_results = draft.results
        /\ draft.pc # "stored" => session.draft_results = draft.previous
        /\ draft.pc = "stopped" => (~draft.input_ok \/ draft.results = <<>>)
        /\ Len(draft.results) <= Len(variant_seeds) /\ InSeedOrder(draft.results)
        /\ draft.pc \in {"finish", "stored"} => draft.i = Len(variant_seeds)
        /\ draft.pc = "after_attempts" => draft.ran # <<>>

\* variants 1 and 3 replaced the results of an earlier run; variant 2 failed
\* under all attempts
SecondVariantSkipped ==
    /\ Drafting /\ draft.pc = "stored" /\ draft.previous = EarlierResults
    /\ Len(session.draft_results) = 2
    /\ session.draft_results[1].variant_name = <<1, 11>>
    /\ session.draft_results[2].variant_name = <<3, 33>>

\* C22: the solver process is started only in a run in which the user is
\* signed in, is_admin is true, the selected period is published, a
\* template was uploaded and solve_rota.py exists; in every other state no
\* solver attempt is made
DraftingGate ==
    Drafting =>
        /\ draft.solver_started =>
              /\ draft.gate.signed_in /\ draft.gate.is_admin
              /\ draft.gate.period_published /\ draft.gate.template_uploaded
              /\ draft.gate.solver_exists
        /\ ~draft.solver_started =>
              draft.ran = <<>> /\ draft.results = <<>> /\ draft.out_file = NoFile

\* the first solver process of a run that passed every test
GatePassedSolverStarted ==
    /\ Drafting /\ draft.solver_started
    /\ draft.i = 1 /\ Len(draft.ran) = 1 /\ draft.pc = "attempt"
    /\ draft.gate.period_published /\ draft.gate.is_admin

\* the run has written the Leave sheet of the solver input
Prepared == run # <<>> /\ run.pc \in {"prepared", "solving"}

\* C23: after the app prepared the solver input, every data row (row 2
\* onward) of the Leave sheet is an approved leave request whose dates lie
\* inside the period window (start >= period start, end >= start, end <=
\* period end)
LeaveSheetApprovedInsideWindow ==
    Prepared =>
        \A r \in 1..Len(run.sheet) :
            ~run.sheet[r].blank =>
                /\ run.sheet[r].E = TRUE
                /\ \E c \in 1..Len(Consultants) :
                      /\ run.sheet[r].A = Consultants[c]
                      /\ run.table[c] # <<>> /\ run.table[c][1].approved
                /\ run.sheet[r].B >= period_start
                /\ run.sheet[r].C >= run.sheet[r].B
                /\ run.sheet[r].C <= period_end

\* the rows the app wrote in a run that uses approved leave only are the
\* approved requests that overlap the window, clipped to it, in the order of
\* start date and name; leave outside the window is not written and a
\* partial overlap without truncation stops the run before the solver
WrittenLeaveRows ==
    (run # <<>> /\ run.only_approved) =>
        /\ Prepared =>
            LET recs == SortLeave(run.leave_final)
            IN  /\ Len(recs) <= Len(run.sheet)
                /\ \A r \in 1..Len(recs) :
                      /\ run.sheet[r].A = Consultants[recs[r].consultant]
                      /\ run.sheet[r].E = TRUE
                      /\ run.table[recs[r].consultant][1].approved
                      /\ run.sheet[r].B = Max(run.table[recs[r].consultant][1].start_date, period_start)
                      /\ run.sheet[r].C = Min(run.table[recs[r].consultant][1].end_date, period_end)
                      /\ period_start <= run.sheet[r].B /\ run.sheet[r].B <= run.sheet[r].C
                      /\ run.sheet[r].C <= period_end
                /\ \A c \in 1..Len(Consultants) :
                      (run.table[c] # <<>> /\ run.table[c][1].approved
                         /\ overlap(run.table[c][1].start_date, run.table[c][1].end_date,
                                    period_start, period_end))
                      <=> \E r \in 1..Len(recs) : recs[r].consultant = c
                /\ (~run.force_truncate =>
                      \A c \in 1..Len(Consultants) :
                          (run.table[c] # <<>> /\ run.table[c][1].approved
                             /\ overlap(run.table[c][1].start_date, run.table[c][1].end_date,
                                        period_start, period_end))
                          => Contained(run.table[c][1]))

\* the page of user u sends its write in this step
Sends(u) == run # <<>> /\ run[u].pc = "loaded" /\ run'[u].pc = "idle"

\* the page of user u fetches in this step and goes on to button o
Offers(u, o) == run # <<>> /\ run[u].pc = "idle" /\ run'[u].pc = "loaded" /\ run'[u].op = o

\* C24: no write of a non-admin's page creates, edits or deletes a leave
\* request whose dates overlap a rota period that is published at the
\* moment of the write, whatever the admin's page did since the page fetched
ConsultantWritesOutsidePublished ==
    [][\A u \in Users :
         (Sends(u) /\ ~is_rota_admin(u) /\ db'.leave_requests # db.leave_requests) =>
             /\ ~is_locked_for_range(db.rota_periods, run[u].start_date, run[u].end_date)
             /\ run[u].op \in {"save", "delete"} =>
                    ~is_locked_for_range(db.rota_periods,
                                         db.leave_requests[run[u].id][1].start_date,
                                         db.leave_requests[run[u].id][1].end_date)]_vars

\* the app's test itself: a non-admin's page goes on to a write only with
\* dates that overlap no published period of the periods it fetched
ConsultantPassesFetchedLock ==
    [][\A u \in Users :
         ((Offers(u, "submit") \/ Offers(u, "save") \/ Offers(u, "delete"))
            /\ ~is_rota_admin(u)) =>
             ~\E pid \in PeriodIds :
                  /\ db.rota_periods[pid] # NoRow
                  /\ db.rota_periods[pid][1].is_published
                  /\ run'[u].start_date <= db.rota_periods[pid][1].end_date
                  /\ db.rota_periods[pid][1].start_date <= run'[u].end_date]_vars

\* C29: a leave request enters the table with approved = false; approved
\* becomes true only by the write of an Approve click on an admin's page; no
\* step sets approved back to false; and the request a page offers for
\* edit, delete, approve or reject has approved = false in what it fetched
ApprovalLifecycle ==
    [][\A id \in LeaveIds :
         LET before == db.leave_requests[id]
             after == db'.leave_requests[id]
         IN  /\ (before = NoRow /\ after # NoRow) => ~after[1].approved
             /\ (before # NoRow /\ after # NoRow /\ ~before[1].approved /\ after[1].approved) =>
                    \E u \in Users : /\ Sends(u) /\ is_rota_admin(u)
                                     /\ run[u].op = "approve" /\ run[u].id = id
             /\ (before # NoRow /\ after # NoRow /\ before[1].approved) => after[1].approved
             /\ \A u \in Users :
                   (\E o \in {"save", "delete", "approve", "reject"} :
                        Offers(u, o) /\ run'[u].id = id) =>
                       (before # NoRow /\ ~before[1].approved)
             /\ \A u \in Users :
                   (Offers(u, "approve") \/ Offers(u, "reject")) => is_rota_admin(u)]_vars

\* an approved request on which the consultant's page, loaded before the
\* approval, still has a save to send
ApprovedWhileEditPending ==
    /\ db # <<>> /\ run # <<>>
    /\ db.leave_requests["r1"] # NoRow /\ db.leave_requests["r1"][1].approved
    /\ run["consultant"].pc = "loaded" /\ run["consultant"].op = "save"
    /\ run["consultant"].id = "r1"
    /\ run["consultant"].start_date # db.leave_requests["r1"][1].start_date

\* C30: every period has is_published = true exactly when published_at is
\* set and has an end date not earlier than its start date; Publish is
\* offered only for a period that is unpublished in what the page fetched,
\* Unpublish only for a published one
PublicationInvariant ==
    /\ [](db # <<>> =>
            \A pid \in PeriodIds :
                db.rota_periods[pid] # NoRow =>
                    /\ db.rota_periods[pid][1].is_published
                         <=> (db.rota_periods[pid][1].published_at # NoTime)
                    /\ db.rota_periods[pid][1].end_date >= db.rota_periods[pid][1].start_date)
    /\ [][\A u \in Users, pid \in PeriodIds :
            /\ (Offers(u, "publish") /\ run'[u].id = pid) =>
                   (db.rota_periods[pid] # NoRow /\ ~db.rota_periods[pid][1].is_published)
            /\ (Offers(u, "unpublish") /\ run'[u].id = pid) =>
                   (db.rota_periods[pid] # NoRow /\ db.rota_periods[pid][1].is_published)]_vars

\* a period created unpublished, published and unpublished again next to a
\* period that was created published
UnpublishedAgain ==
    /\ db # <<>> /\ run # <<>>
    /\ db.rota_periods["p1"] # NoRow /\ db.rota_periods["p2"] # NoRow
    /\ ~db.rota_periods["p1"][1].is_published /\ db.rota_periods["p1"][1].published_at = NoTime
    /\ db.rota_periods["p2"][1].is_published /\ db.rota_periods["p2"][1].published_at = Now
    /\ run["admin"].pc = "idle"

====
